---- MODULE Spec2Model ----
(***************************************************************************)
(* KagoDB query cursor (core/cursor.js) and the find mixin (mixin/find.js) *)
(* as a state machine.  One cursor over one backing collection; every      *)
(* public operation of the cursor is one action that runs the operation to *)
(* the point where its callback fires.                                     *)
(*                                                                         *)
(* Encoding of JavaScript values:                                          *)
(*   undefined / absent   None   == <<>>                                   *)
(*   a present value v    Some(v) == <<v>>                                 *)
(*   an error slot        Null ("null") or the error's name                *)
(*   an array             a sequence; arrays that escape to the caller     *)
(*                        live in `heap` and are named by their index      *)
(*   an item              a function from field names to values            *)
(***************************************************************************)
EXTENDS Integers, Sequences, FiniteSets, TLC

(***************************************************************************)
(* Bounds of the model.                                                    *)
(***************************************************************************)
\* most keys the backing collection holds
MaxKeys == 3
\* most sort/offset/limit stages chained on the cursor
MaxStages == 1
\* largest argument given to offset() and limit()
MaxCount == 2
\* most arrays toArray() has delivered that the caller still holds
MaxHeld == 2
\* how far below zero Limit.rest may run before further pulls are not modelled
MaxOver == 1
\* a backend fault is injected at the k-th backend request of an operation, k <= MaxFail
MaxFail == 2
\* most offset/limit stages chained where the order of the stages is looked at
MaxWraps == 2
\* most calls issued on a cursor where calls wait for the backend
MaxTasks == 2
\* most calls issued on a cursor where every backend request is answered in the end
MaxLive == 1
\* the ids 1..MaxIds are named in the storage operations write, read, erase and exist,
\* and are the keys of the store where calls wait for the backend
MaxIds == 2
\* most jobs registered with a middleware pipe
MaxJobs == 3

None == <<>>
Some(v) == <<v>>
Null == "null"

Min(a, b) == IF a < b THEN a ELSE b
Max(a, b) == IF a > b THEN a ELSE b

(***************************************************************************)
(* Items.  The test fixture's fields `string` and `decimal`; a universe    *)
(* in which each field value is shared by two items and no two items are   *)
(* equal, so that AND-conditions and tie-breaks are distinguishable.       *)
(***************************************************************************)
Fields == <<"string", "decimal">>
FieldSet == {Fields[i] : i \in 1..Len(Fields)}
\* lexicographic order of the string values in use
StringOrder == <<"BAR", "BAZ", "FOO", "QUUX", "QUX">>
Items ==
  { [string |-> "FOO", decimal |-> 123],
    [string |-> "FOO", decimal |-> 111],
    [string |-> "BAR", decimal |-> 123] }
\* items that differ pairwise, to tell positions apart
ItemList ==
  << [string |-> "FOO", decimal |-> 123],
     [string |-> "BAR", decimal |-> 111],
     [string |-> "BAZ", decimal |-> 999],
     [string |-> "QUX", decimal |-> 123],
     [string |-> "QUUX", decimal |-> 456] >>

\* an item restricted to the fields in S (fields it lacks stay absent)
Restrict(item, S) == [f \in (DOMAIN item) \cap S |-> item[f]]

(***************************************************************************)
(* The storage collaborator: index() and read(id).  The store is a list of *)
(* (id, item) pairs in key-enumeration order.  `e` is the environment of   *)
(* one operation: e.db the store, e.failAt the number of the backend       *)
(* request that fails (0: none), e.undef whether index() of an empty store *)
(* answers with no list at all instead of an empty one.  `log` is the list *)
(* of backend requests the operation has issued so far.                    *)
(***************************************************************************)
Ids(store) == [i \in 1..Len(store) |-> store[i].id]

HasId(store, id) == \E i \in 1..Len(store) : store[i].id = id

ItemOf(store, id) == store[CHOOSE i \in 1..Len(store) : store[i].id = id].item

\* collection.index(callback): (err) or (null, list)
BackendIndex(e, log) ==
  LET log1 == Append(log, <<"index">>) IN
  IF Len(log1) = e.failAt
  THEN [err |-> "BackendError", list |-> None, log |-> Append(log, <<"index failed">>)]
  ELSE IF Len(e.db) = 0 /\ e.undef
  THEN [err |-> Null, list |-> None, log |-> log1]
  ELSE [err |-> Null, list |-> Some(Ids(e.db)), log |-> log1]

\* collection.read(id, callback): (err) or (null, item)
BackendRead(e, log, id) ==
  LET log1 == Append(log, <<"read", id>>) IN
  IF Len(log1) = e.failAt
  THEN [err |-> "BackendError", item |-> None, log |-> Append(log, <<"read failed", id>>)]
  ELSE IF ~HasId(e.db, id)
  THEN [err |-> "NotFound", item |-> None, log |-> log1]
  ELSE [err |-> Null, item |-> Some(ItemOf(e.db, id)), log |-> log1]

(***************************************************************************)
(* Query specifications and their parsers (op/condition_op, projection_op, *)
(* sort_op).  A parsed specification is callable iff its type is           *)
(* "function".                                                             *)
(***************************************************************************)
\* a condition object: field -> required value
CondObj(obj) == [type |-> "object", obj |-> obj]
\* a test function supplied by the caller; "isFOO" is item.string == 'FOO'
CondFn(fn) == [type |-> "function", fn |-> fn]
\* an argument the parser cannot turn into a callable
Invalid == [type |-> "invalid"]
\* null / undefined argument
Absent == [type |-> "null"]

Truthy(arg) == arg.type # "null"

IsFunction(x) == x.type = "function"

\* ConditionOp.parser(condition)
ConditionParser(condition) ==
  IF condition.type = "object"
  THEN [type |-> "function", fn |-> "match", obj |-> condition.obj]
  ELSE condition

\* the equality test a condition object stands for: every named field equal
MatchAll(obj, item) ==
  \A f \in DOMAIN obj : f \in DOMAIN item /\ item[f] = obj[f]

\* condition(item) for a parsed condition
ApplyCondition(condition, item) ==
  IF condition.fn = "match"
  THEN MatchAll(condition.obj, item)
  ELSE "string" \in DOMAIN item /\ item.string = "FOO"

\* a projection object: the set of fields marked 1
ProjObj(fields) == [type |-> "object", fields |-> fields]

\* ProjectionOp.parser(projection)
ProjectionParser(projection) ==
  IF projection.type = "object"
  THEN [type |-> "function", fn |-> "pick", fields |-> projection.fields]
  ELSE projection

\* projection(item) for a parsed projection: a new item with the picked fields
ApplyProjection(projection, item) == Restrict(item, projection.fields)

\* a sort object: its (field, direction) pairs in declared order
SortObj(keys) == [type |-> "object", keys |-> keys]
\* a comparator supplied by the caller; "decimal" is a.decimal - b.decimal
SortFn(fn) == [type |-> "function", fn |-> fn]

\* SortOp.parser(order)
SortParser(order) ==
  IF order.type = "object"
  THEN [type |-> "function", fn |-> "keys", keys |-> order.keys]
  ELSE order

StringRank(v) == CHOOSE i \in 1..Len(StringOrder) : StringOrder[i] = v

\* the position of a field value in its natural order
Rank(f, v) == IF f = "string" THEN StringRank(v) ELSE v

\* natural comparison of one field: -1, 0 or 1; an absent field compares equal
CompareField(f, a, b) ==
  IF f \notin DOMAIN a \/ f \notin DOMAIN b THEN 0
  ELSE IF Rank(f, a[f]) < Rank(f, b[f]) THEN -1
  ELSE IF Rank(f, a[f]) > Rank(f, b[f]) THEN 1
  ELSE 0

\* the comparator of a sort object: the first key that does not tie decides
RECURSIVE CompareKeys(_, _, _)
CompareKeys(keys, a, b) ==
  IF keys = <<>> THEN 0
  ELSE LET c == CompareField(Head(keys)[1], a, b) * Head(keys)[2] IN
       IF c # 0 THEN c ELSE CompareKeys(Tail(keys), a, b)

\* sorter(a, b) for a parsed sort specification; with no sorter at all
\* Array.prototype.sort compares the elements as strings, and every item is
\* "[object Object]"
Compare(sorter, a, b) ==
  IF ~IsFunction(sorter) THEN 0
  ELSE IF sorter.fn = "keys"
  THEN CompareKeys(sorter.keys, a, b)
  ELSE CompareField("decimal", a, b)

\* the one element of a set of one element; a call's arguments are evaluated
\* once, before its body runs
The(set) == CHOOSE v \in set : TRUE

\* Array.prototype.sort(sorter): insertion into the sorted prefix, ties keep
\* their order
RECURSIVE Insert(_, _, _)
Insert(sorter, sorted0, x0) ==
  The({ IF sorted = <<>> THEN <<x>>
        ELSE IF Compare(sorter, Head(sorted), x) <= 0
        THEN <<Head(sorted)>> \o Insert(sorter, Tail(sorted), x)
        ELSE <<x>> \o sorted
        : sorted \in {sorted0}, x \in {x0} })

RECURSIVE InsertionSort(_, _)
InsertionSort(list, sorter) ==
  IF list = <<>> THEN <<>>
  ELSE Insert(sorter, InsertionSort(SubSeq(list, 1, Len(list) - 1), sorter), list[Len(list)])

\* list.sort() with a sorter that looks at the first key of a sort object only
ArraySortFirstKey(list, sorter) ==
  IF IsFunction(sorter) /\ sorter.fn = "keys" /\ Len(sorter.keys) > 1
  THEN InsertionSort(list, [sorter EXCEPT !.keys = <<Head(sorter.keys)>>])
  ELSE InsertionSort(list, sorter)

\* list.sort(self.sorter)
ArraySort(list, sorter) == InsertionSort(list, sorter)

(***************************************************************************)
(* The stages.  A chain is the list of stages from the Source (chain[1])   *)
(* to the cursor's current head (chain[Len(chain)]); the upstream          *)
(* (`source`) of stage i is stage i-1.  A pull threads s = [chain, log]    *)
(* and yields [chain, log, err, item]: callback(err) has err # Null,       *)
(* callback() has err = Null and item = None, callback(null, item) has     *)
(* item = Some(item).                                                      *)
(***************************************************************************)
\* new Source(collection)
Source == [kind |-> "Source", list |-> None]
\* new Condition(source, condition)
Condition(condition) == [kind |-> "Condition", condition |-> condition]
\* new Projection(source, projection)
Projection(projection) == [kind |-> "Projection", projection |-> projection]
\* new Sort(source, order)
Sort(order) == [kind |-> "Sort", sorter |-> SortParser(order), list |-> None]
\* new Offset(source, offset)
Offset(offset) == [kind |-> "Offset", offset |-> offset, ready |-> FALSE]
\* new Limit(source, limit)
Limit(limit) == [kind |-> "Limit", limit |-> limit, rest |-> limit]

Callback(s, err, item) ==
  [chain |-> s.chain, log |-> s.log, err |-> err, item |-> item]

After(r) == [chain |-> r.chain, log |-> r.log]

RECURSIVE NextObject(_, _, _)
RECURSIVE SourceNextObject(_, _, _)
RECURSIVE ConditionNext(_, _, _)
RECURSIVE SortNextObject(_, _, _)
RECURSIVE OffsetIterator(_, _, _, _)
RECURSIVE OffsetIteratorRetries(_, _, _, _)
RECURSIVE ToArrayIterator(_, _, _, _)
RECURSIVE ToArrayIteratorPartial(_, _, _, _)
RECURSIVE EachIterator(_, _, _, _)
RECURSIVE EachIteratorSilentEnd(_, _, _, _)

\* Source.prototype.nextObject taking the keys from the end of the list (pop for shift)
SourceNextObjectPop(s, i, e) ==
  LET this == s.chain[i] IN
  IF this.list # None
  THEN IF Len(this.list[1]) = 0
       THEN Callback(s, Null, None)
       ELSE LET n == Len(this.list[1])
                id == this.list[1][n]
                s1 == [s EXCEPT !.chain[i].list = Some(SubSeq(this.list[1], 1, n - 1))]
                r == BackendRead(e, s1.log, id)
            IN  [chain |-> s1.chain, log |-> r.log, err |-> r.err, item |-> r.item]
  ELSE LET r == BackendIndex(e, s.log) IN
       IF r.err # Null
       THEN [chain |-> s.chain, log |-> r.log, err |-> r.err, item |-> None]
       ELSE LET list == IF r.list = None THEN <<>> ELSE r.list[1] IN
            SourceNextObject([chain |-> [s.chain EXCEPT ![i].list = Some(list)],
                              log |-> r.log], i, e)

\* Source.prototype.nextObject that does not keep the listing it was answered
SourceNextObjectKeepsAsking(s, i, e) ==
  LET r == BackendIndex(e, s.log) IN
  IF r.err # Null
  THEN [chain |-> s.chain, log |-> r.log, err |-> r.err, item |-> None]
  ELSE IF r.list = None \/ r.list = Some(<<>>)
  THEN [chain |-> s.chain, log |-> r.log, err |-> Null, item |-> None]
  ELSE LET q == BackendRead(e, r.log, Head(r.list[1]))
       IN  [chain |-> s.chain, log |-> q.log, err |-> q.err, item |-> q.item]

\* Source.prototype.nextObject
SourceNextObject(s, i, e) ==
  LET this == s.chain[i] IN
  IF this.list # None
  THEN IF Len(this.list[1]) = 0
       THEN Callback(s, Null, None)
       ELSE LET id == Head(this.list[1])
                s1 == [s EXCEPT !.chain[i].list = Some(Tail(this.list[1]))]
                r == BackendRead(e, s1.log, id)
            IN  [chain |-> s1.chain, log |-> r.log, err |-> r.err, item |-> r.item]
  ELSE LET r == BackendIndex(e, s.log) IN
       IF r.err # Null
       THEN [chain |-> s.chain, log |-> r.log, err |-> r.err, item |-> None]
       ELSE LET list == IF r.list = None THEN <<>> ELSE r.list[1] IN
            SourceNextObject([chain |-> [s.chain EXCEPT ![i].list = Some(list)],
                              log |-> r.log], i, e)

\* the callback `next` giving up at the first item that does not match
ConditionNextStops(r, i, e) ==
  IF r.err # Null THEN r
  ELSE IF r.item = None THEN r
  ELSE IF ApplyCondition(r.chain[i].condition, r.item[1]) THEN r
  ELSE Callback(After(r), Null, None)

\* the callback `next` of Condition.prototype.nextObject; r is what the
\* upstream handed it
ConditionNext(r, i, e) ==
  IF r.err # Null THEN r
  ELSE IF r.item = None THEN r
  ELSE IF ApplyCondition(r.chain[i].condition, r.item[1]) THEN r
  ELSE ConditionNext(NextObject(After(r), i - 1, e), i, e)

\* Condition.prototype.nextObject that pulls before it looks at its condition
ConditionNextObjectPullsFirst(s, i, e) ==
  IF ~IsFunction(s.chain[i].condition)
  THEN Callback(After(NextObject(s, i - 1, e)), "invalid condition", None)
  ELSE ConditionNext(NextObject(s, i - 1, e), i, e)

\* Condition.prototype.nextObject
ConditionNextObject(s, i, e) ==
  IF ~IsFunction(s.chain[i].condition)
  THEN Callback(s, "invalid condition", None)
  ELSE ConditionNext(NextObject(s, i - 1, e), i, e)

\* the callback of Projection.prototype.nextObject handing the item on as it came
ProjectionCallbackPassThrough(r, i) == r

\* the callback of Projection.prototype.nextObject; r is what the upstream handed it
ProjectionCallback(r, i) ==
  IF r.err # Null THEN r
  ELSE IF r.item = None THEN r
  ELSE [r EXCEPT !.item = Some(ApplyProjection(r.chain[i].projection, r.item[1]))]

\* Projection.prototype.nextObject that ends the sequence where it should fail
ProjectionNextObjectSilent(s, i, e) ==
  IF ~IsFunction(s.chain[i].projection)
  THEN Callback(s, Null, None)
  ELSE ProjectionCallback(NextObject(s, i - 1, e), i)

\* Projection.prototype.nextObject
ProjectionNextObject(s, i, e) ==
  IF ~IsFunction(s.chain[i].projection)
  THEN Callback(s, "invalid projection", None)
  ELSE ProjectionCallback(NextObject(s, i - 1, e), i)

\* the iterator of toArray that takes an error for the end of the sequence
ToArrayIteratorPartial(r, i, e, buf) ==
  IF r.err # Null \/ r.item = None
  THEN [chain |-> r.chain, log |-> r.log, err |-> Null, list |-> Some(buf)]
  ELSE ToArrayIteratorPartial(NextObject(After(r), i, e), i, e, Append(buf, r.item[1]))

\* function toArray(source, callback): the callback `iterator` with its buffer;
\* r is what stage i handed it; yields [chain, log, err, list]
ToArrayIterator(r, i, e, buf) ==
  IF r.err # Null
  THEN [chain |-> r.chain, log |-> r.log, err |-> r.err, list |-> None]
  ELSE IF r.item = None
  THEN [chain |-> r.chain, log |-> r.log, err |-> Null, list |-> Some(buf)]
  ELSE ToArrayIterator(NextObject(After(r), i, e), i, e, Append(buf, r.item[1]))

\* function toArray(source, callback)
ToArray(s, i, e) == ToArrayIterator(NextObject(s, i, e), i, e, <<>>)

\* the iterator of each() that keeps the end of the sequence to itself
EachIteratorSilentEnd(r, i, e, acc) ==
  IF r.err = Null /\ r.item # None
  THEN EachIteratorSilentEnd(NextObject(After(r), i, e), i, e,
         [calls |-> Append(acc.calls, [err |-> r.err, item |-> r.item]), pulls |-> acc.pulls + 1])
  ELSE [chain |-> r.chain, log |-> r.log, calls |-> acc.calls, pulls |-> acc.pulls]

\* Cursor.prototype.each: the callback `iterator`; r is what the pull handed it,
\* acc the invocations of the caller's callback and the pulls issued so far;
\* yields [chain, log, calls, pulls]
EachIterator(r, i, e, acc) ==
  IF r.err = Null /\ r.item # None
  THEN EachIterator(NextObject(After(r), i, e), i, e,
         [calls |-> Append(acc.calls, [err |-> r.err, item |-> r.item]), pulls |-> acc.pulls + 1])
  ELSE [chain |-> r.chain, log |-> r.log,
        calls |-> Append(acc.calls, [err |-> r.err, item |-> r.item]), pulls |-> acc.pulls]

\* Cursor.prototype.each
Each(s, i, e) == EachIterator(NextObject(s, i, e), i, e, [calls |-> <<>>, pulls |-> 1])

\* Sort.prototype.nextObject keeping the drained list as it came
SortNextObjectUnsorted(s, i, e) ==
  LET this == s.chain[i] IN
  IF this.list # None
  THEN IF Len(this.list[1]) = 0
       THEN Callback(s, Null, None)
       ELSE Callback([s EXCEPT !.chain[i].list = Some(Tail(this.list[1]))],
                     Null, Some(Head(this.list[1])))
  ELSE LET r == ToArray(s, i - 1, e) IN
       IF r.err # Null
       THEN [chain |-> r.chain, log |-> r.log, err |-> r.err, item |-> None]
       ELSE SortNextObject(
              [chain |-> [r.chain EXCEPT ![i].list = Some(r.list[1])], log |-> r.log], i, e)

\* the callback Sort.prototype.nextObject gives toArray; r is what toArray handed it
SortCallback(r, i, e) ==
  IF r.err # Null
  THEN [chain |-> r.chain, log |-> r.log, err |-> r.err, item |-> None]
  ELSE SortNextObject(
         [chain |-> [r.chain EXCEPT ![i].list = Some(ArraySort(r.list[1], r.chain[i].sorter))],
          log |-> r.log], i, e)

\* Sort.prototype.nextObject that hands on what its upstream delivers, one item
\* per call
SortNextObjectStreams(s, i, e) == NextObject(s, i - 1, e)

\* Sort.prototype.nextObject
SortNextObject(s, i, e) ==
  LET this == s.chain[i] IN
  IF this.list # None
  THEN IF Len(this.list[1]) = 0
       THEN Callback(s, Null, None)
       ELSE Callback([s EXCEPT !.chain[i].list = Some(Tail(this.list[1]))],
                     Null, Some(Head(this.list[1])))
  ELSE SortCallback(ToArray(s, i - 1, e), i, e)

\* the callback `iterator` counting with rest-- > 0 for --rest > 0
OffsetIteratorPostDecrement(r, i, e, rest) ==
  IF r.err # Null THEN r
  ELSE IF r.item = None THEN r
  ELSE IF rest > 0 THEN OffsetIterator(NextObject(After(r), i - 1, e), i, e, rest - 1)
  ELSE NextObject([chain |-> [r.chain EXCEPT ![i].ready = TRUE], log |-> r.log], i - 1, e)

\* the callback `iterator` pulling once more when it is handed an error
OffsetIteratorRetries(r, i, e, rest) ==
  IF r.err # Null THEN NextObject(After(r), i - 1, e)
  ELSE IF r.item = None THEN r
  ELSE IF rest - 1 > 0 THEN OffsetIteratorRetries(NextObject(After(r), i - 1, e), i, e, rest - 1)
  ELSE NextObject([chain |-> [r.chain EXCEPT ![i].ready = TRUE], log |-> r.log], i - 1, e)

\* the callback `iterator` of Offset.prototype.nextObject; r is what the
\* upstream handed it, rest its local counter
OffsetIterator(r, i, e, rest) ==
  IF r.err # Null THEN r
  ELSE IF r.item = None THEN r
  ELSE IF rest - 1 > 0 THEN OffsetIterator(NextObject(After(r), i - 1, e), i, e, rest - 1)
  ELSE NextObject([chain |-> [r.chain EXCEPT ![i].ready = TRUE], log |-> r.log], i - 1, e)

\* Offset.prototype.nextObject
OffsetNextObject(s, i, e) ==
  LET this == s.chain[i] IN
  IF this.ready \/ this.offset <= 0
  THEN NextObject(s, i - 1, e)
  ELSE OffsetIterator(NextObject(s, i - 1, e), i, e, this.offset)

\* Limit.prototype.nextObject testing this.rest-- >= 0
LimitNextObjectOneMore(s, i, e) ==
  LET this == s.chain[i]
      s1 == [s EXCEPT !.chain[i].rest = this.rest - 1]
  IN  IF this.rest >= 0
      THEN NextObject(s1, i - 1, e)
      ELSE Callback(s1, Null, None)

\* Limit.prototype.nextObject counting anew once it has signalled the end
LimitNextObjectStartsOver(s, i, e) ==
  LET this == s.chain[i] IN
  IF this.rest > 0
  THEN NextObject([s EXCEPT !.chain[i].rest = this.rest - 1], i - 1, e)
  ELSE Callback([s EXCEPT !.chain[i].rest = this.limit], Null, None)

\* Limit.prototype.nextObject
LimitNextObject(s, i, e) ==
  LET this == s.chain[i]
      s1 == [s EXCEPT !.chain[i].rest = this.rest - 1]
  IN  IF this.rest > 0
      THEN NextObject(s1, i - 1, e)
      ELSE Callback(s1, Null, None)

\* nextObject of stage i, by the stage's type
NextObject(s, i, e) ==
  LET kind == s.chain[i].kind IN
  CASE kind = "Source" -> SourceNextObject(s, i, e)
    [] kind = "Condition" -> ConditionNextObject(s, i, e)
    [] kind = "Projection" -> ProjectionNextObject(s, i, e)
    [] kind = "Sort" -> SortNextObject(s, i, e)
    [] kind = "Offset" -> OffsetNextObject(s, i, e)
    [] kind = "Limit" -> LimitNextObject(s, i, e)

\* rewind that leaves an Offset stage ready and a Limit stage's rest where it is
RewindStageKeepsCounters(stage) ==
  CASE stage.kind = "Source" -> [stage EXCEPT !.list = None]
    [] stage.kind = "Sort" -> [stage EXCEPT !.list = None]
    [] OTHER -> stage

\* rewind of one stage: Source, Sort, Offset and Limit drop their own state;
\* Condition and Projection have none
RewindStage(stage) ==
  CASE stage.kind = "Source" -> [stage EXCEPT !.list = None]
    [] stage.kind = "Sort" -> [stage EXCEPT !.list = None]
    [] stage.kind = "Offset" -> [stage EXCEPT !.ready = FALSE]
    [] stage.kind = "Limit" -> [stage EXCEPT !.rest = stage.limit]
    [] OTHER -> stage

\* rewind() of stage i: every stage's rewind calls its upstream's rewind
RECURSIVE RewindFrom(_, _)
RewindFrom(chain, i) ==
  IF i = 0 THEN chain
  ELSE RewindFrom([chain EXCEPT ![i] = RewindStage(chain[i])], i - 1)

(***************************************************************************)
(* The cursor.  c = [chain, _toArray, _index, heap]: the stage chain       *)
(* (this._source is chain[1], this.source is chain[Len(chain)]), the two   *)
(* memo slots and the arrays reachable from the cursor or its caller.      *)
(* this._toArray holds a reference into heap; this._index is kept by value *)
(* (the listing it caches never reaches the caller).                       *)
(***************************************************************************)
VARIABLES
  db,        \* the backing collection: <<[id, item], ...>> in enumeration order
  chain,     \* the cursor's stages; <<>> until find() has built the cursor
  _toArray,  \* Cursor._toArray: None or Some(reference into heap)
  _index,    \* Cursor._index: None or Some(list of ids)
  heap,      \* the arrays toArray() has built or delivered
  query,     \* the arguments find() was called with: [condition, projection]
  held,      \* arrays delivered to the caller: [ref, orig (as delivered), now (as the caller left it)]
  out,       \* what the last operation handed to its callback
  inflight,  \* the calls issued on the cursor whose backend requests are answered later
  twin,      \* the caller's other cursor, and which stage objects each cursor refers to
  hist,      \* what the two operations before the last handed to theirs, where it is followed
  mw         \* the web API's middleware pipe: its run function, and what has run

vars == <<db, chain, query, _toArray, _index, heap, held, out, inflight, twin, hist, mw>>

\* new Cursor(...) that parses the condition and never installs the Condition stage
CursorDropsCondition(condition, projection) ==
  IF Truthy(projection) /\ Truthy(ProjectionParser(projection))
  THEN <<Source, Projection(ProjectionParser(projection))>>
  ELSE <<Source>>

\* new Cursor(collection, condition, projection)
Cursor(condition, projection) ==
  LET c1 == IF Truthy(condition) /\ Truthy(ConditionParser(condition))
            THEN <<Source, Condition(ConditionParser(condition))>>
            ELSE <<Source>>
  IN  IF Truthy(projection) /\ Truthy(ProjectionParser(projection))
      THEN Append(c1, Projection(ProjectionParser(projection)))
      ELSE c1

NewCursor(condition, projection) ==
  [chain |-> Cursor(condition, projection), _toArray |-> None, _index |-> None, heap |-> <<>>]

This == [chain |-> chain, _toArray |-> _toArray, _index |-> _index, heap |-> heap]

\* handing out the array itself for [].concat(array)
CloneAlias(h, ref) == [heap |-> h, ref |-> ref]

\* [].concat(array): a new array with the same elements; yields the heap and the new reference
Clone(h, ref) == [heap |-> Append(h, h[ref]), ref |-> Len(h) + 1]

\* Cursor.prototype.index; yields [c, log, err, list]
CursorIndex(c, e) ==
  IF c._index # None
  THEN [c |-> c, log |-> <<>>, err |-> Null, list |-> c._index]
  ELSE LET r == BackendIndex(e, <<>>) IN
       IF r.err # Null
       THEN [c |-> c, log |-> r.log, err |-> r.err, list |-> None]
       ELSE IF r.list = None
       THEN \* self._index = undefined; [].concat(undefined) is [undefined]
            [c |-> c, log |-> r.log, err |-> Null, list |-> Some(<<None>>)]
       ELSE [c |-> [c EXCEPT !._index = r.list], log |-> r.log, err |-> Null, list |-> r.list]

\* Cursor.prototype.toArray that never looks at its memo and drains the chain again
CursorToArrayNoMemo(c, e) ==
  LET r == ToArray([chain |-> c.chain, log |-> <<>>], Len(c.chain), e) IN
  IF r.err # Null
  THEN [c |-> [c EXCEPT !.chain = r.chain], log |-> r.log, err |-> r.err, list |-> None]
  ELSE LET buf == Len(c.heap) + 1
           cl == Clone(Append(c.heap, r.list[1]), buf)
       IN  [c |-> [c EXCEPT !.chain = r.chain, !._toArray = Some(buf), !.heap = cl.heap],
            log |-> r.log, err |-> Null, list |-> Some(cl.ref)]

\* the callback Cursor.prototype.toArray gives toArray; r is what toArray handed it
CursorToArrayCallback(c, r) ==
  IF r.err # Null
  THEN [c |-> [c EXCEPT !.chain = r.chain], log |-> r.log, err |-> r.err, list |-> None]
  ELSE LET buf == Len(c.heap) + 1
           cl == Clone(Append(c.heap, r.list[1]), buf)
       IN  [c |-> [c EXCEPT !.chain = r.chain, !._toArray = Some(buf), !.heap = cl.heap],
            log |-> r.log, err |-> Null, list |-> Some(cl.ref)]

\* Cursor.prototype.toArray; yields [c, log, err, list] with list a reference
CursorToArray(c, e) ==
  IF c._toArray # None
  THEN LET cl == Clone(c.heap, c._toArray[1]) IN
       [c |-> [c EXCEPT !.heap = cl.heap], log |-> <<>>, err |-> Null, list |-> Some(cl.ref)]
  ELSE CursorToArrayCallback(c, ToArray([chain |-> c.chain, log |-> <<>>], Len(c.chain), e))

\* the array a callback was handed and did not keep is no longer reachable
Release(c, list) ==
  IF list = None THEN c ELSE [c EXCEPT !.heap = SubSeq(c.heap, 1, Len(c.heap) - 1)]

\* Cursor.prototype.count that takes the key listing whatever the chain is
CursorCountByIndex(c, e) ==
  LET r == CursorIndex(c, e) IN
  [c |-> r.c, log |-> r.log, err |-> r.err,
   count |-> IF r.err # Null THEN None ELSE Some(Len(r.list[1]))]

\* the callback Cursor.prototype.count gives index; r is what index handed it
CountIndexCallback(r) ==
  [c |-> r.c, log |-> r.log, err |-> r.err,
   count |-> IF r.err # Null THEN None ELSE Some(Len(r.list[1]))]

\* the callback Cursor.prototype.count gives toArray; r is what toArray handed it
CountToArrayCallback(r) ==
  [c |-> Release(r.c, r.list), log |-> r.log, err |-> r.err,
   count |-> IF r.err # Null THEN None ELSE Some(Len(r.c.heap[r.list[1]]))]

\* Cursor.prototype.count that materializes the list whatever the chain is
CursorCountByToArray(c, e) == CountToArrayCallback(CursorToArray(c, e))

\* Cursor.prototype.count; yields [c, log, err, count]
CursorCount(c, e) ==
  IF Len(c.chain) = 1
  THEN CountIndexCallback(CursorIndex(c, e))
  ELSE CountToArrayCallback(CursorToArray(c, e))

\* the callback findOne gives toArray; r is what Cursor.prototype.toArray handed it
FindOneCallback(r) ==
  IF r.err # Null
  THEN [log |-> r.log, err |-> r.err, item |-> None]
  ELSE IF Len(r.c.heap[r.list[1]]) > 0
  THEN [log |-> r.log, err |-> Null, item |-> Some(r.c.heap[r.list[1]][1])]
  ELSE [log |-> r.log, err |-> Null, item |-> None]

\* findOne that leaves the condition out of find()
FindOneIgnoresCondition(condition, e) ==
  FindOneCallback(CursorToArray([chain |-> <<Source, Limit(1)>>, _toArray |-> None,
                                 _index |-> None, heap |-> <<>>], e))

\* findOne that leaves out limit(1) and takes the first of all matches
FindOneWithoutLimit(condition, e) ==
  FindOneCallback(CursorToArray([chain |-> Cursor(condition, Absent), _toArray |-> None,
                                 _index |-> None, heap |-> <<>>], e))

\* KagoDB.prototype.findOne(condition, callback): this.find(condition).limit(1).toArray(...)
FindOne(condition, e) ==
  FindOneCallback(CursorToArray([chain |-> Append(Cursor(condition, Absent), Limit(1)),
                                 _toArray |-> None, _index |-> None, heap |-> <<>>], e))

\* KagoDB.prototype.count(condition, callback) of the find mixin
CollectionCount(condition, e) == CursorCount(NewCursor(condition, Absent), e)

(***************************************************************************)
(* Calls in flight.  A backend request is answered some time after it was  *)
(* issued; until then the call that issued it waits, and the caller may    *)
(* issue further calls on the cursor.  A call t = [op, reqs, calls, log]:  *)
(* reqs are its requests not yet answered, each with its continuation k    *)
(* (the callbacks waiting for the answer, the innermost last), calls the   *)
(* invocations of the caller's callback so far, log the requests issued.   *)
(* m = [c, t] is the cursor and the call while the code of the call runs.  *)
(***************************************************************************)
Frame(f, i, buf, rest) == [f |-> f, i |-> i, buf |-> buf, rest |-> rest]

NewCall(op) == [op |-> op, reqs |-> <<>>, calls |-> <<>>, log |-> <<>>]

\* collection.index(callback), collection.read(id, callback): the request goes out
Issue(m, req, k) ==
  [m EXCEPT !.t.reqs = Append(@, [req |-> req, k |-> k]), !.t.log = Append(@, req)]

\* the caller's callback is invoked
Invoke(m, err, val) == [m EXCEPT !.t.calls = Append(@, [err |-> err, val |-> val])]

Front(k) == SubSeq(k, 1, Len(k) - 1)

RECURSIVE Pull(_, _, _)
RECURSIVE Resume(_, _, _, _)

\* Source.prototype.nextObject asking for the next two keys at once
PullSourceReadsAhead(m, i, k) ==
  LET this == m.c.chain[i] IN
  IF this.list # None
  THEN IF Len(this.list[1]) = 0
       THEN Resume(m, k, Null, None)
       ELSE IF Len(this.list[1]) = 1
       THEN Issue([m EXCEPT !.c.chain[i].list = Some(<<>>)], <<"read", Head(this.list[1])>>, k)
       ELSE Issue(Issue([m EXCEPT !.c.chain[i].list = Some(Tail(Tail(this.list[1])))],
                        <<"read", this.list[1][1]>>, k),
                  <<"read", this.list[1][2]>>, k)
  ELSE Issue(m, <<"index">>, Append(k, Frame("SourceIndex", i, <<>>, 0)))

\* Source.prototype.nextObject with callback k
PullSource(m, i, k) ==
  LET this == m.c.chain[i] IN
  IF this.list # None
  THEN IF Len(this.list[1]) = 0
       THEN Resume(m, k, Null, None)
       ELSE Issue([m EXCEPT !.c.chain[i].list = Some(Tail(this.list[1]))],
                  <<"read", Head(this.list[1])>>, k)
  ELSE Issue(m, <<"index">>, Append(k, Frame("SourceIndex", i, <<>>, 0)))

\* the callback Source.prototype.nextObject gives collection.index
ResumeSourceIndex(m, k, err, val) ==
  IF err # Null
  THEN Resume(m, Front(k), err, None)
  ELSE Pull([m EXCEPT !.c.chain[k[Len(k)].i].list = Some(IF val = None THEN <<>> ELSE val[1])],
            k[Len(k)].i, Front(k))

\* Condition.prototype.nextObject with callback k
PullCondition(m, i, k) ==
  IF ~IsFunction(m.c.chain[i].condition)
  THEN Resume(m, k, "invalid condition", None)
  ELSE Pull(m, i - 1, Append(k, Frame("ConditionNext", i, <<>>, 0)))

\* the callback `next` keeping the end of the sequence to itself
ResumeConditionNextSilentEnd(m, k, err, val) ==
  IF err # Null THEN Resume(m, Front(k), err, None)
  ELSE IF val = None THEN m
  ELSE IF ApplyCondition(m.c.chain[k[Len(k)].i].condition, val[1]) THEN Resume(m, Front(k), Null, val)
  ELSE Pull(m, k[Len(k)].i - 1, k)

\* the callback `next` of Condition.prototype.nextObject
ResumeConditionNext(m, k, err, val) ==
  IF err # Null THEN Resume(m, Front(k), err, None)
  ELSE IF val = None THEN Resume(m, Front(k), Null, None)
  ELSE IF ApplyCondition(m.c.chain[k[Len(k)].i].condition, val[1]) THEN Resume(m, Front(k), Null, val)
  ELSE Pull(m, k[Len(k)].i - 1, k)

\* Projection.prototype.nextObject with callback k
PullProjection(m, i, k) ==
  IF ~IsFunction(m.c.chain[i].projection)
  THEN Resume(m, k, "invalid projection", None)
  ELSE Pull(m, i - 1, Append(k, Frame("ProjectionCallback", i, <<>>, 0)))

\* the callback of Projection.prototype.nextObject
ResumeProjectionCallback(m, k, err, val) ==
  IF err # Null THEN Resume(m, Front(k), err, None)
  ELSE IF val = None THEN Resume(m, Front(k), Null, None)
  ELSE Resume(m, Front(k), Null, Some(ApplyProjection(m.c.chain[k[Len(k)].i].projection, val[1])))

\* function toArray(source, callback) with source the stage i and callback k
PullToArray(m, i, k) == Pull(m, i, Append(k, Frame("ToArrayIterator", i, <<>>, 0)))

\* the callback `iterator` of function toArray
ResumeToArrayIterator(m, k, err, val) ==
  IF err # Null THEN Resume(m, Front(k), err, None)
  ELSE IF val = None THEN Resume(m, Front(k), Null, Some(k[Len(k)].buf))
  ELSE Pull(m, k[Len(k)].i,
            Append(Front(k), Frame("ToArrayIterator", k[Len(k)].i, Append(k[Len(k)].buf, val[1]), 0)))

\* Sort.prototype.nextObject with callback k
PullSort(m, i, k) ==
  LET this == m.c.chain[i] IN
  IF this.list # None
  THEN IF Len(this.list[1]) = 0
       THEN Resume(m, k, Null, None)
       ELSE Resume([m EXCEPT !.c.chain[i].list = Some(Tail(this.list[1]))], k, Null,
                   Some(Head(this.list[1])))
  ELSE PullToArray(m, i - 1, Append(k, Frame("SortCallback", i, <<>>, 0)))

\* the callback Sort.prototype.nextObject gives toArray
ResumeSortCallback(m, k, err, val) ==
  IF err # Null
  THEN Resume(m, Front(k), err, None)
  ELSE Pull([m EXCEPT !.c.chain[k[Len(k)].i].list =
                        Some(ArraySort(val[1], m.c.chain[k[Len(k)].i].sorter))],
            k[Len(k)].i, Front(k))

\* Offset.prototype.nextObject with callback k
PullOffset(m, i, k) ==
  LET this == m.c.chain[i] IN
  IF this.ready \/ this.offset <= 0
  THEN Pull(m, i - 1, k)
  ELSE Pull(m, i - 1, Append(k, Frame("OffsetIterator", i, <<>>, this.offset)))

\* the callback `iterator` of Offset.prototype.nextObject
ResumeOffsetIterator(m, k, err, val) ==
  IF err # Null THEN Resume(m, Front(k), err, None)
  ELSE IF val = None THEN Resume(m, Front(k), Null, None)
  ELSE IF k[Len(k)].rest - 1 > 0
  THEN Pull(m, k[Len(k)].i - 1,
            Append(Front(k), Frame("OffsetIterator", k[Len(k)].i, <<>>, k[Len(k)].rest - 1)))
  ELSE Pull([m EXCEPT !.c.chain[k[Len(k)].i].ready = TRUE], k[Len(k)].i - 1, Front(k))

\* Limit.prototype.nextObject with callback k
PullLimit(m, i, k) ==
  IF m.c.chain[i].rest > 0
  THEN Pull([m EXCEPT !.c.chain[i].rest = @ - 1], i - 1, k)
  ELSE Resume([m EXCEPT !.c.chain[i].rest = @ - 1], k, Null, None)

\* nextObject of stage i with callback k, by the stage's type
Pull(m0, i0, k0) ==
  The({ CASE m.c.chain[i].kind = "Source" -> PullSource(m, i, k)
          [] m.c.chain[i].kind = "Condition" -> PullCondition(m, i, k)
          [] m.c.chain[i].kind = "Projection" -> PullProjection(m, i, k)
          [] m.c.chain[i].kind = "Sort" -> PullSort(m, i, k)
          [] m.c.chain[i].kind = "Offset" -> PullOffset(m, i, k)
          [] m.c.chain[i].kind = "Limit" -> PullLimit(m, i, k)
        : m \in {m0}, i \in {i0}, k \in {k0} })

\* the callback Cursor.prototype.toArray gives toArray
ResumeCursorToArray(m, k, err, val) ==
  LET r == CursorToArrayCallback(m.c, [chain |-> m.c.chain, log |-> <<>>, err |-> err, list |-> val])
  IN  Resume([m EXCEPT !.c = Release(r.c, r.list)], Front(k), r.err,
             IF r.err # Null THEN None ELSE Some(r.c.heap[r.list[1]]))

\* the callback `iterator` of Cursor.prototype.each
ResumeEachIterator(m, k, err, val) ==
  IF err = Null /\ val # None
  THEN Pull(Invoke(m, err, val), Len(m.c.chain), k)
  ELSE Invoke(m, err, val)

\* the callback Cursor.prototype.index gives collection.index
ResumeCursorIndex(m, k, err, val) ==
  IF err # Null THEN Resume(m, Front(k), err, None)
  ELSE IF val = None THEN Resume(m, Front(k), Null, Some(<<None>>))
  ELSE Resume([m EXCEPT !.c._index = val], Front(k), Null, val)

\* the callback Cursor.prototype.count gives index or toArray
ResumeCountCallback(m, k, err, val) ==
  IF err # Null THEN Resume(m, Front(k), err, None)
  ELSE Resume(m, Front(k), Null, Some(Len(val[1])))

\* the callback on top of k is invoked with (err, val); an empty k stands for
\* the caller's callback
Resume(m0, k0, err0, val0) ==
  The({ IF k = <<>> THEN Invoke(m, err, val)
        ELSE CASE k[Len(k)].f = "SourceIndex" -> ResumeSourceIndex(m, k, err, val)
               [] k[Len(k)].f = "ConditionNext" -> ResumeConditionNext(m, k, err, val)
               [] k[Len(k)].f = "ProjectionCallback" -> ResumeProjectionCallback(m, k, err, val)
               [] k[Len(k)].f = "ToArrayIterator" -> ResumeToArrayIterator(m, k, err, val)
               [] k[Len(k)].f = "SortCallback" -> ResumeSortCallback(m, k, err, val)
               [] k[Len(k)].f = "OffsetIterator" -> ResumeOffsetIterator(m, k, err, val)
               [] k[Len(k)].f = "CursorToArray" -> ResumeCursorToArray(m, k, err, val)
               [] k[Len(k)].f = "EachIterator" -> ResumeEachIterator(m, k, err, val)
               [] k[Len(k)].f = "CursorIndex" -> ResumeCursorIndex(m, k, err, val)
               [] k[Len(k)].f = "CountCallback" -> ResumeCountCallback(m, k, err, val)
        : m \in {m0}, k \in {k0}, err \in {err0}, val \in {val0} })

\* Cursor.prototype.toArray with callback k
ToArrayWith(m, k) ==
  IF m.c._toArray # None
  THEN Resume(m, k, Null, Some(m.c.heap[m.c._toArray[1]]))
  ELSE PullToArray(m, Len(m.c.chain), Append(k, Frame("CursorToArray", 0, <<>>, 0)))

\* Cursor.prototype.toArray as a call in flight
StartToArray(m) == ToArrayWith(m, <<>>)

\* Cursor.prototype.index with callback k
IndexWith(m, k) ==
  IF m.c._index # None
  THEN Resume(m, k, Null, m.c._index)
  ELSE Issue(m, <<"index">>, Append(k, Frame("CursorIndex", 0, <<>>, 0)))

\* Cursor.prototype.count as a call in flight
StartCount(m) ==
  IF Len(m.c.chain) = 1
  THEN IndexWith(m, <<Frame("CountCallback", 0, <<>>, 0)>>)
  ELSE ToArrayWith(m, <<Frame("CountCallback", 0, <<>>, 0)>>)

\* Proto.prototype.nextObject on the cursor as a call in flight
StartNextObject(m) == Pull(m, Len(m.c.chain), <<>>)

\* Cursor.prototype.each as a call in flight
StartEach(m) == Pull(m, Len(m.c.chain), <<Frame("EachIterator", 0, <<>>, 0)>>)

\* the backend's answer to a request: (err) or (null, value)
Answered(store, req, fail, undef) ==
  IF req[1] = "index"
  THEN LET r == BackendIndex([db |-> store, failAt |-> IF fail THEN 1 ELSE 0, undef |-> undef], <<>>)
       IN  [err |-> r.err, val |-> r.list]
  ELSE LET r == BackendRead([db |-> store, failAt |-> IF fail THEN 1 ELSE 0, undef |-> undef], <<>>, req[2])
       IN  [err |-> r.err, val |-> r.item]

\* the j-th request of call t is answered: its continuation runs
Answer(m, j, a) ==
  Resume([m EXCEPT !.t.reqs = SubSeq(@, 1, j - 1) \o SubSeq(@, j + 1, Len(@))],
         m.t.reqs[j].k, a.err, a.val)

(***************************************************************************)
(* Storage behind HTTP.  The store answers write, read, erase and exist;   *)
(* the web API server answers one request by one store operation; the      *)
(* client (http-jquery.js) sends the request and hands the answer to the   *)
(* callback.  A request or its answer may be lost on the way (net).        *)
(***************************************************************************)
\* store.write(id, item): the item of a key held is replaced, a new key comes last
StoreWrite(store, id, item) ==
  IF HasId(store, id)
  THEN [i \in 1..Len(store) |-> IF store[i].id = id THEN [id |-> id, item |-> item] ELSE store[i]]
  ELSE Append(store, [id |-> id, item |-> item])

\* store.exist(id)
StoreExist(store, id) == HasId(store, id)

\* store.read(id): (err) or (null, item)
StoreRead(store, id) ==
  IF ~HasId(store, id)
  THEN [err |-> "NotFound", item |-> None]
  ELSE [err |-> Null, item |-> Some(ItemOf(store, id))]

\* store.erase(id): (err) for a key not held
StoreErase(store, id) ==
  IF ~HasId(store, id)
  THEN [err |-> "NotFound", store |-> store]
  ELSE [err |-> Null, store |-> SelectSeq(store, LAMBDA p : p.id # id)]

\* JSON.stringify of an item: its fields with their values, in the item's order
JsonStringify(item) ==
  LET names == SelectSeq(Fields, LAMBDA f : f \in DOMAIN item)
  IN  [k \in 1..Len(names) |-> <<names[k], item[names[k]]>>]

\* JSON.parse of an item's text
JsonParse(text) ==
  [f \in {text[k][1] : k \in 1..Len(text)} |->
     text[CHOOSE k \in 1..Len(text) : text[k][1] = f][2]]

NoData == [none |-> TRUE]

\* the web API server: one request, one store operation, one response
Serve(store, req) ==
  CASE req.type = "GET" ->
         IF ~StoreExist(store, req.id)
         THEN [status |-> 404, data |-> NoData, store |-> store]
         ELSE IF StoreRead(store, req.id).err # Null
         THEN [status |-> 500, data |-> NoData, store |-> store]
         ELSE [status |-> 200, data |-> [json |-> JsonStringify(StoreRead(store, req.id).item[1])],
               store |-> store]
    [] req.type = "POST" /\ req.method = "write" ->
         [status |-> 200, data |-> [success |-> TRUE],
          store |-> StoreWrite(store, req.id, JsonParse(req.content))]
    [] req.type = "POST" /\ req.method = "erase" ->
         IF StoreErase(store, req.id).err # Null
         THEN [status |-> 500, data |-> NoData, store |-> store]
         ELSE [status |-> 200, data |-> [success |-> TRUE], store |-> StoreErase(store, req.id).store]
    [] req.type = "POST" /\ req.method = "exists" ->
         [status |-> 200, data |-> [exist |-> StoreExist(store, req.id)], store |-> store]
    [] OTHER -> [status |-> 400, data |-> NoData, store |-> store]

\* what may happen to a request on the way
Nets == {"ok", "request lost", "response lost"}

\* jQuery.ajax(opt): done(data) on a 2xx response, fail(jqXHR) otherwise
Ajax(store, req, net) ==
  IF net = "request lost"
  THEN [done |-> FALSE, status |-> 0, data |-> NoData, store |-> store]
  ELSE IF net = "response lost"
  THEN [done |-> FALSE, status |-> 0, data |-> NoData, store |-> Serve(store, req).store]
  ELSE [done |-> Serve(store, req).status = 200, status |-> Serve(store, req).status,
        data |-> Serve(store, req).data, store |-> Serve(store, req).store]

\* ajaxFail: new Error(status + ' ' + error)
AjaxFail(status) ==
  CASE status = 404 -> "404 Error"
    [] status = 500 -> "500 Error"
    [] status = 400 -> "400 Error"
    [] OTHER -> "0 Error"

\* exists of http-jquery.js reading the field `exists` of the answer
ProxyExistsOtherField(store, id, net) ==
  LET r == Ajax(store, [type |-> "POST", id |-> id, method |-> "exists", content |-> <<>>], net) IN
  IF ~r.done
  THEN [err |-> AjaxFail(r.status), exist |-> None, store |-> r.store]
  ELSE [err |-> Null, exist |-> IF "exists" \in DOMAIN r.data THEN Some(r.data.exists) ELSE None,
        store |-> r.store]

\* erase of http-jquery.js that reports success whatever the answer
ProxyEraseAlwaysDone(store, id, net) ==
  LET r == Ajax(store, [type |-> "POST", id |-> id, method |-> "erase", content |-> <<>>], net) IN
  [err |-> Null, store |-> r.store]

\* the fail/done callbacks of read
ProxyReadCallback(r) ==
  IF ~r.done
  THEN [err |-> AjaxFail(r.status), item |-> None, store |-> r.store]
  ELSE [err |-> Null, item |-> Some(JsonParse(r.data.json)), store |-> r.store]

\* read(id, callback) of http-jquery.js
ProxyRead(store, id, net) ==
  ProxyReadCallback(Ajax(store, [type |-> "GET", id |-> id, method |-> "", content |-> <<>>], net))

\* the fail/done callbacks of write and of erase
ProxyDoneCallback(r) ==
  IF ~r.done
  THEN [err |-> AjaxFail(r.status), store |-> r.store]
  ELSE [err |-> Null, store |-> r.store]

\* write(id, item, callback) of http-jquery.js
ProxyWrite(store, id, item, net) ==
  ProxyDoneCallback(Ajax(store, [type |-> "POST", id |-> id, method |-> "write",
                                 content |-> JsonStringify(item)], net))

\* erase(id, callback) of http-jquery.js
ProxyErase(store, id, net) ==
  ProxyDoneCallback(Ajax(store, [type |-> "POST", id |-> id, method |-> "erase", content |-> <<>>], net))

\* the fail/done callbacks of exists: data = data || {}; callback(null, data.exist)
ProxyExistsCallback(r) ==
  IF ~r.done
  THEN [err |-> AjaxFail(r.status), exist |-> None, store |-> r.store]
  ELSE [err |-> Null, exist |-> IF "exist" \in DOMAIN r.data THEN Some(r.data.exist) ELSE None,
        store |-> r.store]

\* exists(id, callback) of http-jquery.js
ProxyExists(store, id, net) ==
  ProxyExistsCallback(Ajax(store, [type |-> "POST", id |-> id, method |-> "exists", content |-> <<>>], net))

(***************************************************************************)
(* Inputs.                                                                 *)
(***************************************************************************)
\* every store of at most MaxKeys keys; key i is the i-th in enumeration order
Stores ==
  UNION { { [i \in 1..n |-> [id |-> i, item |-> f[i]]] : f \in [1..n -> Items] } : n \in 0..MaxKeys }

\* the stores that hold the first n items of ItemList, one per key
ListStores ==
  { [i \in 1..n |-> [id |-> i, item |-> ItemList[i]]] : n \in 0..Min(MaxKeys, Len(ItemList)) }

EmptyObj == [f \in {} |-> 0]

\* the ids a caller of the storage operations may name
KeyIds == 1..MaxIds

\* the items a caller writes
Written == { [string |-> "FOO", decimal |-> 123], [string |-> "BAR", decimal |-> 123] }

Conditions ==
  { Absent,
    CondObj(EmptyObj),
    CondObj([string |-> "FOO"]),
    CondObj([string |-> "FOO", decimal |-> 123]),
    CondFn("isFOO"),
    Invalid }

Projections == { Absent, ProjObj({"string"}) }

Orders ==
  { SortObj(<< <<"string", 1>> >>),
    SortObj(<< <<"decimal", -1>> >>),
    SortObj(<< <<"decimal", 1>>, <<"string", -1>> >>),
    SortObj(<< <<"string", 1>>, <<"decimal", -1>> >>),
    SortFn("decimal") }

Counts == 0..MaxCount

\* the environment of one operation
Envs ==
  { [db |-> db, failAt |-> k, undef |-> u] :
      k \in 0..MaxFail, u \in IF db = <<>> THEN BOOLEAN ELSE {FALSE} }

\* the environments in which no backend request fails
Calm == { e \in Envs : e.failAt = 0 }

(***************************************************************************)
(* What the caller sees.                                                   *)
(***************************************************************************)
IsAdded(stage) == stage.kind \in {"Sort", "Offset", "Limit"}

\* the stages sort()/offset()/limit() have added
Added(ch) == SelectSeq(ch, IsAdded)

\* a stage as its constructor left it
Fresh(stage) == stage = RewindStage(stage)

\* no stage of the chain has been pulled since construction or the last rewind
Unstarted(ch) == \A i \in 1..Len(ch) : Fresh(ch[i])

\* the facts about the state an operation started in that its result is read against
Pre ==
  [unstarted |-> Unstarted(chain), cached |-> _toArray # None, indexed |-> _index # None,
   memo |-> IF _toArray = None THEN None ELSE Some(heap[_toArray[1]])]

Out(op, arg, err, item, list, count, log) ==
  [op |-> op, arg |-> arg, err |-> err, item |-> item, list |-> list, count |-> count,
   log |-> log, calls |-> <<>>, pulls |-> 0, exist |-> None, pre |-> Pre]

\* pulls are modelled until a Limit's rest has run MaxOver below zero
Pullable(ch) ==
  \A i \in 1..Len(ch) : ch[i].kind = "Limit" => ch[i].rest > -MaxOver

(***************************************************************************)
(* The middleware pipe of the web API (webapi.js: mw_pipe, mw_join).  A    *)
(* function is [fn |-> "NOOP"], a job, or what mw_join returns,            *)
(* [fn |-> "mw_join", first, second]; the `next` a function is handed is    *)
(* the caller's ([fn |-> "outer"]) or the closure mw_join makes,            *)
(* [fn |-> "then", second, next].  A job calls its next before it returns   *)
(* ("sync"), some time after ("async"), or never ("stop").  mw.trace are    *)
(* the jobs started, the next() calls of jobs and the call of the caller's  *)
(* next, in order; mw.parked is the job that has yet to call its next,      *)
(* mw.used the jobs as they were registered.                                *)
(***************************************************************************)
NOOP == [fn |-> "NOOP"]

Job(id, kind) == [fn |-> "job", id |-> id, kind |-> kind]

Outer == [fn |-> "outer"]

\* mw_join with the two functions taken for each other
MwJoinSwapped(first, second) == [fn |-> "mw_join", first |-> second, second |-> first]

\* mw_join(first, second)
MwJoin(first, second) == [fn |-> "mw_join", first |-> first, second |-> second]

\* function() { second.call(that, req, res, next); }
Then(second, next) == [fn |-> "then", second |-> second, next |-> next]

RECURSIVE MwCall(_, _, _)
RECURSIVE MwNext(_, _)

\* f.call(that, req, res, next); yields [trace, parked]
MwCall(f, next, trace) ==
  CASE f.fn = "NOOP" -> MwNext(next, trace)
    [] f.fn = "mw_join" -> MwCall(f.first, Then(f.second, next), trace)
    [] f.fn = "job" /\ f.kind = "sync" ->
         MwNext(next, trace \o << <<"start", f.id>>, <<"next", f.id>> >>)
    [] f.fn = "job" /\ f.kind = "async" ->
         [trace |-> Append(trace, <<"start", f.id>>), parked |-> Some([id |-> f.id, next |-> next])]
    [] f.fn = "job" /\ f.kind = "stop" ->
         [trace |-> Append(trace, <<"start", f.id>>), parked |-> None]

\* next()
MwNext(next, trace) ==
  IF next.fn = "outer"
  THEN [trace |-> Append(trace, <<"outer">>), parked |-> None]
  ELSE MwCall(next.second, next.next, trace)

\* mw_pipe(): run is NOOP
MwPipe == [run |-> NOOP, used |-> <<>>, trace |-> <<>>, parked |-> None, began |-> FALSE]

\* the state before find(): a store, and no cursor yet
Start(stores) ==
  /\ db \in stores
  /\ chain = <<>>
  /\ query = [condition |-> Absent, projection |-> Absent]
  /\ _toArray = None
  /\ _index = None
  /\ heap = <<>>
  /\ held = <<>>
  /\ inflight = <<>>
  /\ twin = [refs |-> <<>>, park |-> None, fresh |-> 1]
  /\ mw = MwPipe
  /\ out = [op |-> "init", arg |-> None, err |-> Null, item |-> None, list |-> None, count |-> None,
            log |-> <<>>, calls |-> <<>>, pulls |-> 0, exist |-> None, pre |-> [unstarted |-> TRUE, cached |-> FALSE, indexed |-> FALSE, memo |-> None]]
  /\ hist = [prev |-> [op |-> "init", err |-> Null, list |-> None],
             prev2 |-> [op |-> "init", err |-> Null, list |-> None],
             calls |-> <<>>,
             ended |-> FALSE,
             listing |-> None,
             asked |-> 0,
             pulls |-> 0,
             skipped |-> 0,
             know |-> [id \in KeyIds |->
                         IF HasId(db, id) THEN [state |-> "held", item |-> ItemOf(db, id)]
                         ELSE [state |-> "never", item |-> EmptyObj]]]

Init == Start(Stores)

InitList == Start(ListStores)

\* the history is not followed
Forget == hist' = hist

\* the operation's backend requests are answered before it returns
AtOnce == inflight' = inflight

\* the caller has the one cursor
Lone == twin' = twin

\* no middleware runs
Idle == mw' = mw

\* the history is followed: the result before this operation, and the one before that
Remember ==
  hist' = [hist EXCEPT !.prev = [op |-> out.op, err |-> out.err, list |-> out.list],
                       !.prev2 = hist.prev]

\* what the caller knows of a key after the operation that has just answered:
\* a write or erase that succeeded settles it, one that failed leaves it open
Known(know, o) ==
  IF o.op \notin {"write", "erase"} THEN know
  ELSE IF o.op = "write"
  THEN [know EXCEPT ![o.arg[1]] = IF o.err = Null THEN [state |-> "held", item |-> o.arg[3]]
                                  ELSE [state |-> "unknown", item |-> EmptyObj]]
  ELSE [know EXCEPT ![o.arg[1]] = IF o.err = Null THEN [state |-> "erased", item |-> EmptyObj]
                                  ELSE IF o.arg[2] = "response lost"
                                  THEN [state |-> "unknown", item |-> EmptyObj]
                                  ELSE @]

\* the chain methods called on the cursor since find(), with their stages
Called ==
  hist' = [hist EXCEPT !.calls = IF out'.op = "find" THEN <<>>
                                 ELSE IF out'.op \in {"sort", "offset", "limit"}
                                 THEN Append(@, [op |-> out'.op, stage |-> out'.arg[1]])
                                 ELSE @]

\* whether a nextObject() has signalled the end of the sequence since the
\* cursor was made or last rewound
Ended ==
  hist' = [hist EXCEPT !.ended = IF out'.op \in {"find", "rewind"} THEN FALSE
                                 ELSE IF out'.op = "nextObject" /\ out'.err = Null /\ out'.item = None
                                 THEN TRUE
                                 ELSE @]

\* the index requests among the requests of a log, answered or failed
Indexes(log) == Len(SelectSeq(log, LAMBDA q : q[1] \in {"index", "index failed"}))

\* the read requests among the requests of a log, answered or failed
Reads(log) == Len(SelectSeq(log, LAMBDA q : q[1] \in {"read", "read failed"}))

\* what the requests seen since the cursor was made or last rewound tell of its
\* Source: the keys of the listing it was answered that are still to be read
\* (None while no listing was answered), how often the listing was asked for
\* and how many nextObject() calls were made, both counted as 0, 1, or 2 for more
Listed ==
  hist' = [hist EXCEPT
    !.listing = IF out'.op \in {"find", "rewind"} THEN None
                ELSE IF out'.op # "nextObject" THEN @
                ELSE IF @ # None THEN Some(IF @[1] = <<>> THEN <<>> ELSE Tail(@[1]))
                ELSE IF out'.log = <<>> \/ out'.log[1] # <<"index">> THEN None
                ELSE Some(IF db = <<>> THEN <<>> ELSE Tail(Ids(db))),
    !.asked = IF out'.op \in {"find", "rewind"} THEN 0
              ELSE IF out'.op = "nextObject" THEN Min(@ + Indexes(out'.log), 2)
              ELSE @,
    !.pulls = IF out'.op \in {"find", "rewind"} THEN 0
              ELSE IF out'.op = "nextObject" THEN Min(@ + 1, 2)
              ELSE @]

\* the read requests of a log that were answered with an item
Answers(log) == Len(SelectSeq(log, LAMBDA q : q[1] = "read"))

\* the items the Source has delivered since the offset stage was added or the
\* cursor last rewound that did not reach the caller
Skipped ==
  hist' = [hist EXCEPT
    !.skipped = IF out'.op \in {"find", "rewind", "offset"} THEN 0
                ELSE IF out'.op = "nextObject"
                THEN @ + Answers(out'.log) - (IF out'.item = None THEN 0 ELSE 1)
                ELSE @]

\* the caller keeps track of the keys
Track == hist' = [hist EXCEPT !.know = Known(hist.know, out')]

(***************************************************************************)
(* Operations.                                                             *)
(***************************************************************************)
\* collection.find(condition, projection)
Find(condition, projection) ==
  /\ chain = <<>>
  /\ chain' = Cursor(condition, projection)
  /\ query' = [condition |-> condition, projection |-> projection]
  /\ out' = Out("find", None, Null, None, None, None, <<>>)
  /\ UNCHANGED <<db, _toArray, _index, heap, held>>

\* a chain method that puts the new stage beneath the head it found
WrapBeneath(most, op, stage) ==
  /\ chain # <<>>
  /\ Len(Added(chain)) < most
  /\ chain' = IF Added(chain) = <<>> THEN Append(chain, stage)
              ELSE SubSeq(chain, 1, Len(chain) - 1) \o <<stage, chain[Len(chain)]>>
  /\ out' = Out(op, Some(stage), Null, None, None, None, <<>>)
  /\ UNCHANGED <<db, query, _toArray, _index, heap, held>>

\* cursor.sort(order), cursor.offset(offset), cursor.limit(limit) on a cursor
\* that has fewer than `most` such stages: the new stage wraps the head
WrapWithin(most, op, stage) ==
  /\ chain # <<>>
  /\ Len(Added(chain)) < most
  /\ chain' = Append(chain, stage)
  /\ out' = Out(op, Some(stage), Null, None, None, None, <<>>)
  /\ UNCHANGED <<db, query, _toArray, _index, heap, held>>

Wrap(op, stage) == WrapWithin(MaxStages, op, stage)

CursorSort(order) == Wrap("sort", Sort(order))

CursorOffset(offset) == Wrap("offset", Offset(offset))

CursorLimit(limit) == Wrap("limit", Limit(limit))

\* cursor.nextObject(callback)
CursorNextObject(e) ==
  /\ chain # <<>>
  /\ Pullable(chain)
  /\ \E r \in {NextObject([chain |-> chain, log |-> <<>>], Len(chain), e)} :
       /\ chain' = r.chain
       /\ out' = Out("nextObject", None, r.err, r.item, None, None, r.log)
  /\ UNCHANGED <<db, query, _toArray, _index, heap, held>>

\* cursor.each(callback); out.calls are the invocations of callback, out.pulls
\* the nextObject calls issued
CursorEach(e) ==
  /\ chain # <<>>
  /\ Pullable(chain)
  /\ \E r \in {Each([chain |-> chain, log |-> <<>>], Len(chain), e)} :
       /\ chain' = r.chain
       /\ out' = [Out("each", None, Null, None, None, None, r.log)
                   EXCEPT !.calls = r.calls, !.pulls = r.pulls]
  /\ UNCHANGED <<db, query, _toArray, _index, heap, held>>

\* cursor.rewind()
CursorRewind ==
  /\ chain # <<>>
  /\ chain' = RewindFrom(chain, Len(chain))
  /\ out' = Out("rewind", None, Null, None, None, None, <<>>)
  /\ UNCHANGED <<db, query, _toArray, _index, heap, held>>

\* cursor.toArray(callback); the caller keeps the array it is handed (keep) or
\* lets go of it when the callback returns
CursorToArrayCall(e, keep) ==
  /\ chain # <<>>
  /\ Pullable(chain)
  /\ keep => Len(held) < MaxHeld
  /\ \E r \in {CursorToArray(This, e)} :
       \E c \in {IF keep THEN r.c ELSE Release(r.c, r.list)} :
         /\ chain' = c.chain
         /\ _toArray' = c._toArray
         /\ heap' = c.heap
         /\ held' = IF r.err # Null \/ ~keep THEN held
                    ELSE Append(held, [ref |-> r.list[1], orig |-> r.c.heap[r.list[1]],
                                       now |-> r.c.heap[r.list[1]]])
         /\ out' = Out("toArray", None, r.err, None,
                       IF r.err # Null THEN None ELSE Some(r.c.heap[r.list[1]]), None, r.log)
  /\ UNCHANGED <<db, query, _index>>

\* cursor.count(callback)
CursorCountCall(e) ==
  /\ chain # <<>>
  /\ Pullable(chain)
  /\ \E r \in {CursorCount(This, e)} :
       /\ chain' = r.c.chain
       /\ _toArray' = r.c._toArray
       /\ _index' = r.c._index
       /\ heap' = r.c.heap
       /\ out' = Out("count", None, r.err, None, None, r.count, r.log)
  /\ UNCHANGED <<db, query, held>>

\* cursor.index(callback)
CursorIndexCall(e) ==
  /\ chain # <<>>
  /\ \E r \in {CursorIndex(This, e)} :
       /\ _index' = r.c._index
       /\ out' = Out("index", None, r.err, None, r.list, None, r.log)
  /\ UNCHANGED <<db, query, chain, _toArray, heap, held>>

\* collection.count(condition, callback): a cursor of its own
CollectionCountCall(condition, e) ==
  /\ \E r \in {CollectionCount(condition, e)} :
       out' = Out("collection.count", Some(condition), r.err, None, None, r.count, r.log)
  /\ UNCHANGED <<db, query, chain, _toArray, _index, heap, held>>

\* collection.findOne(condition, callback): a cursor of its own
FindOneCall(condition, e) ==
  /\ \E r \in {FindOne(condition, e)} :
       out' = Out("findOne", Some(condition), r.err, r.item, None, None, r.log)
  /\ UNCHANGED <<db, query, chain, _toArray, _index, heap, held>>

\* collection.write(id, item, callback) through the HTTP storage
CollectionWrite(id, item, net) ==
  /\ \E r \in {ProxyWrite(db, id, item, net)} :
       /\ db' = r.store
       /\ out' = Out("write", <<id, net, item>>, r.err, None, None, None, <<>>)
  /\ UNCHANGED <<query, chain, _toArray, _index, heap, held>>

\* collection.read(id, callback) through the HTTP storage
CollectionRead(id, net) ==
  /\ \E r \in {ProxyRead(db, id, net)} :
       /\ db' = r.store
       /\ out' = Out("read", <<id, net>>, r.err, r.item, None, None, <<>>)
  /\ UNCHANGED <<query, chain, _toArray, _index, heap, held>>

\* collection.erase(id, callback) through the HTTP storage
CollectionErase(id, net) ==
  /\ \E r \in {ProxyErase(db, id, net)} :
       /\ db' = r.store
       /\ out' = Out("erase", <<id, net>>, r.err, None, None, None, <<>>)
  /\ UNCHANGED <<query, chain, _toArray, _index, heap, held>>

\* collection.exist(id, callback) through the HTTP storage
CollectionExist(id, net) ==
  /\ \E r \in {ProxyExists(db, id, net)} :
       /\ db' = r.store
       /\ out' = [Out("exist", <<id, net>>, r.err, None, None, None, <<>>) EXCEPT !.exist = r.exist]
  /\ UNCHANGED <<query, chain, _toArray, _index, heap, held>>

\* what the caller does to an array it was handed: drop the last element, add
\* an element, or reverse the order
Mutations == {"pop", "push", "reverse"}

RECURSIVE Reverse(_)
Reverse(list) == IF list = <<>> THEN <<>> ELSE Append(Reverse(Tail(list)), Head(list))

Mutated(list, m) ==
  CASE m = "pop" -> SubSeq(list, 1, Len(list) - 1)
    [] m = "push" -> Append(list, [string |-> "BAR", decimal |-> 123])
    [] m = "reverse" -> Reverse(list)

\* the caller changes, through its own reference, the i-th array it holds and
\* has not changed yet
CallerMutates(i, m) ==
  /\ i \in 1..Len(held)
  /\ held[i].now = held[i].orig
  /\ m = "pop" => held[i].now # <<>>
  /\ m = "reverse" => Reverse(held[i].now) # held[i].now
  /\ heap' = [heap EXCEPT ![held[i].ref] = Mutated(@, m)]
  /\ held' = [held EXCEPT ![i].now = Mutated(@, m)]
  /\ out' = Out("mutate", None, Null, None, None, None, <<>>)
  /\ UNCHANGED <<db, query, chain, _toArray, _index>>

(***************************************************************************)
(* Two cursors.  The caller holds a second cursor on the collection beside  *)
(* the one it is working with.  A cursor refers to its stage objects:       *)
(* twin.refs names those of the cursor at hand, twin.park is the other      *)
(* cursor with its own references, twin.fresh the next object `new` makes.  *)
(* What an operation writes to a stage object shows through every           *)
(* reference to that object.                                                *)
(***************************************************************************)
\* a constructor that takes the Source object of the cursor made before
CursorRefsShareSource(fresh, n, before) ==
  [i \in 1..n |-> IF i = 1 /\ before # <<>> THEN before[1] ELSE fresh + i - 1]

\* new Source / new Condition / new Projection in the Cursor constructor: the n
\* stage objects of a new cursor are objects no cursor made before refers to
CursorRefs(fresh, n, before) == [i \in 1..n |-> fresh + i - 1]

\* the cursor at hand, as the caller puts it aside
AtHand ==
  [chain |-> chain, refs |-> twin.refs, query |-> query, _toArray |-> _toArray,
   _index |-> _index, heap |-> heap]

\* the stage object ref as the stages written (refs with their states) leave it,
\* where it is among them
Seen(ref, state, refs, states) ==
  IF \E i \in 1..Len(refs) : refs[i] = ref
  THEN states[CHOOSE i \in 1..Len(refs) : refs[i] = ref]
  ELSE state

\* a cursor's stages after the stage objects refs were left in the given states
Through(c, refs, states) ==
  [c EXCEPT !.chain = [j \in 1..Len(c.chain) |-> Seen(c.refs[j], c.chain[j], refs, states)]]

\* collection.find(condition, projection) for the caller's first cursor
FindFirst(condition, projection) ==
  /\ Find(condition, projection)
  /\ twin' = [refs |-> CursorRefs(twin.fresh, Len(chain'), <<>>), park |-> None,
              fresh |-> twin.fresh + Len(chain')]

\* collection.find(condition, projection) once more: the caller puts the cursor
\* at hand aside and works with the new one
FindAnother(condition, projection) ==
  /\ chain # <<>>
  /\ twin.park = None
  /\ \E c \in {NewCursor(condition, projection)} :
       \E refs \in {CursorRefs(twin.fresh, Len(c.chain), twin.refs)} :
         /\ chain' = [j \in 1..Len(c.chain) |-> Seen(refs[j], c.chain[j], twin.refs, chain)]
         /\ twin' = [refs |-> refs, park |-> Some(AtHand), fresh |-> twin.fresh + Len(c.chain)]
         /\ _toArray' = c._toArray
         /\ _index' = c._index
         /\ heap' = c.heap
  /\ query' = [condition |-> condition, projection |-> projection]
  /\ out' = Out("find", None, Null, None, None, None, <<>>)
  /\ UNCHANGED <<db, held>>

\* the caller turns to its other cursor
Turn ==
  /\ twin.park # None
  /\ chain' = twin.park[1].chain
  /\ query' = twin.park[1].query
  /\ _toArray' = twin.park[1]._toArray
  /\ _index' = twin.park[1]._index
  /\ heap' = twin.park[1].heap
  /\ twin' = [twin EXCEPT !.refs = twin.park[1].refs, !.park = Some(AtHand)]
  /\ out' = Out("turn", None, Null, None, None, None, <<>>)
  /\ UNCHANGED <<db, held>>

\* what an operation on the cursor at hand leaves of the stage objects: a stage
\* it added is a new object, and the stages it wrote show through the other
\* cursor's references
Beside ==
  twin' = [refs |-> IF Len(chain') > Len(chain) THEN Append(twin.refs, twin.fresh) ELSE twin.refs,
           fresh |-> IF Len(chain') > Len(chain) THEN twin.fresh + 1 ELSE twin.fresh,
           park |-> IF twin.park = None THEN None
                    ELSE Some(Through(twin.park[1], twin.refs, chain'))]

\* the cursor as the code of a call left it
Land(m) ==
  /\ chain' = m.c.chain
  /\ _toArray' = m.c._toArray
  /\ _index' = m.c._index
  /\ heap' = m.c.heap

\* a call is issued on the cursor and runs up to its first backend request
CallIssued(m) ==
  /\ Land(m)
  /\ inflight' = Append(inflight, m.t)
  /\ UNCHANGED <<db, query, held, out>>

\* a call may be issued: fewer than `most` have been
CallableWithin(most) ==
  /\ chain # <<>>
  /\ Pullable(chain)
  /\ Len(inflight) < most

Callable == CallableWithin(MaxTasks)

\* cursor.toArray(callback), the backend answering later
CallToArrayWithin(most) ==
  /\ CallableWithin(most)
  /\ \E m \in {StartToArray([c |-> This, t |-> NewCall("toArray")])} : CallIssued(m)

CallToArray == CallToArrayWithin(MaxTasks)

\* cursor.nextObject(callback), the backend answering later
CallNextObjectWithin(most) ==
  /\ CallableWithin(most)
  /\ \E m \in {StartNextObject([c |-> This, t |-> NewCall("nextObject")])} : CallIssued(m)

\* cursor.each(callback), the backend answering later
CallEach ==
  /\ Callable
  /\ \E m \in {StartEach([c |-> This, t |-> NewCall("each")])} : CallIssued(m)

\* cursor.count(callback), the backend answering later
CallCount ==
  /\ Callable
  /\ \E m \in {StartCount([c |-> This, t |-> NewCall("count")])} : CallIssued(m)

\* the backend answers the j-th outstanding request of the n-th call, with a
\* failure or with what the store holds; the callbacks waiting for it run up
\* to the call's next request or to the caller's callback
BackendAnswers(n, j, fail, undef) ==
  /\ n \in 1..Len(inflight)
  /\ j \in 1..Len(inflight[n].reqs)
  /\ undef => db = <<>>
  /\ \E m \in {Answer([c |-> This, t |-> inflight[n]], j,
                       Answered(db, inflight[n].reqs[j].req, fail, undef))} :
       /\ Land(m)
       /\ inflight' = [inflight EXCEPT ![n] = m.t]
  /\ UNCHANGED <<db, query, held, out>>

\* conditions and counting over every store
NextQuery ==
  /\ \/ \E condition \in Conditions : Find(condition, Absent)
     \/ \E e \in Envs : CursorNextObject(e)
     \/ CursorRewind
     \/ \E e \in Envs : CursorToArrayCall(e, FALSE)
     \/ \E e \in Envs : CursorCountCall(e)
  /\ Forget
  /\ Lone
  /\ Idle
  /\ AtOnce

SpecQuery == Init /\ [][NextQuery]_vars

\* collection.count() beside a cursor
NextCount ==
  /\ \/ \E condition \in Conditions : Find(condition, Absent)
     \/ \E condition \in Conditions, e \in Envs : CollectionCountCall(condition, e)
  /\ Forget
  /\ Lone
  /\ Idle
  /\ AtOnce

SpecCount == Init /\ [][NextCount]_vars

\* chains of sort/offset/limit stages over find()
NextChain ==
  /\ \/ Find(Absent, Absent)
     \/ \E order \in Orders : CursorSort(order)
     \/ \E offset \in Counts : CursorOffset(offset)
     \/ \E limit \in Counts : CursorLimit(limit)
     \/ \E e \in Calm : CursorNextObject(e)
     \/ CursorRewind
     \/ \E e \in Calm : CursorToArrayCall(e, FALSE)
     \/ \E e \in Calm : CursorCountCall(e)
  /\ Forget
  /\ Lone
  /\ Idle
  /\ AtOnce

SpecChain == InitList /\ [][NextChain]_vars

\* sorting over every store
NextSort ==
  /\ \/ Find(Absent, Absent)
     \/ \E order \in Orders : CursorSort(order)
     \/ CursorRewind
     \/ \E e \in Envs : CursorToArrayCall(e, FALSE)
  /\ Forget
  /\ Lone
  /\ Idle
  /\ AtOnce

SpecSort == Init /\ [][NextSort]_vars

\* the arrays toArray() hands out, and a caller that changes them
NextCopy ==
  /\ \/ Find(Absent, Absent)
     \/ \E limit \in Counts : CursorLimit(limit)
     \/ CursorRewind
     \/ \E e \in Envs : CursorToArrayCall(e, TRUE)
     \/ \E i \in 1..MaxHeld, m \in Mutations : CallerMutates(i, m)
  /\ Forget
  /\ Lone
  /\ Idle
  /\ AtOnce

SpecCopy == InitList /\ [][NextCopy]_vars

\* the field-inclusion projections: one field, the other, both
Picks == { ProjObj({"string"}), ProjObj({"decimal"}), ProjObj({"string", "decimal"}) }

\* projections over conditions
NextProject ==
  /\ \/ \E condition \in Conditions, projection \in Picks : Find(condition, projection)
     \/ \E e \in Envs : CursorNextObject(e)
     \/ CursorRewind
     \/ \E e \in Envs : CursorToArrayCall(e, FALSE)
  /\ Forget
  /\ Lone
  /\ Idle
  /\ AtOnce

SpecProject == Init /\ [][NextProject]_vars

\* each() among single pulls, over a limit
NextEach ==
  /\ \/ \E condition \in Conditions : Find(condition, Absent)
     \/ \E limit \in Counts : CursorLimit(limit)
     \/ \E e \in Calm : CursorNextObject(e)
     \/ \E e \in Envs : CursorEach(e)
     \/ CursorRewind
  /\ Forget
  /\ Lone
  /\ Idle
  /\ AtOnce

SpecEach == Init /\ [][NextEach]_vars

\* the storage operations through HTTP, the caller keeping track of the keys
NextStore ==
  /\ \/ \E id \in KeyIds, item \in Written, net \in Nets : CollectionWrite(id, item, net)
     \/ \E id \in KeyIds, net \in Nets : CollectionRead(id, net)
     \/ \E id \in KeyIds, net \in Nets : CollectionErase(id, net)
     \/ \E id \in KeyIds, net \in Nets : CollectionExist(id, net)
  /\ Track
  /\ Lone
  /\ Idle
  /\ AtOnce

SpecStore == InitList /\ [][NextStore]_vars

\* the memo of toArray() while stages are added, the cursor is rewound and the
\* store is written to and erased from
NextMemo ==
  /\ \/ Find(Absent, Absent)
     \/ \E order \in {SortObj(<< <<"decimal", -1>> >>)} : CursorSort(order)
     \/ \E offset \in {1} : CursorOffset(offset)
     \/ \E limit \in {0} : CursorLimit(limit)
     \/ CursorRewind
     \/ \E e \in Calm : CursorToArrayCall(e, FALSE)
     \/ \E id \in KeyIds, item \in {[string |-> "BAR", decimal |-> 123]} : CollectionWrite(id, item, "ok")
     \/ \E id \in KeyIds : CollectionErase(id, "ok")
  /\ Forget
  /\ Lone
  /\ Idle
  /\ AtOnce

SpecMemo == InitList /\ [][NextMemo]_vars

\* pulls past the end of the sequence, among added stages, toArray() and failures
NextEnd ==
  /\ \/ \E condition \in {Absent, CondObj([string |-> "FOO"])}, projection \in Projections :
          Find(condition, projection)
     \/ \E order \in {SortObj(<< <<"decimal", -1>> >>)} : CursorSort(order)
     \/ \E offset \in Counts : CursorOffset(offset)
     \/ \E limit \in Counts : CursorLimit(limit)
     \/ \E e \in Envs : CursorNextObject(e)
     \/ CursorRewind
     \/ \E e \in Calm : CursorToArrayCall(e, FALSE)
  /\ Ended
  /\ Lone
  /\ Idle
  /\ AtOnce

SpecEnd == InitList /\ [][NextEnd]_vars

\* offset() and limit() chained in either order
NextOrder ==
  /\ \/ Find(Absent, Absent)
     \/ \E offset \in Counts : WrapWithin(MaxWraps, "offset", Offset(offset))
     \/ \E limit \in Counts : WrapWithin(MaxWraps, "limit", Limit(limit))
     \/ \E e \in Calm : CursorToArrayCall(e, FALSE)
  /\ Called
  /\ Lone
  /\ Idle
  /\ AtOnce

SpecOrder == InitList /\ [][NextOrder]_vars

\* toArray(), each() and count() on one cursor, the backend answering later
\* and in any order
NextFlight ==
  /\ \/ /\ \E condition \in {Absent, CondObj([string |-> "FOO"])} : Find(condition, Absent)
        /\ AtOnce
     \/ CallToArray
     \/ CallEach
     \/ CallCount
     \/ \E n \in 1..MaxTasks, j \in 1..MaxTasks, fail \in BOOLEAN, undef \in BOOLEAN :
          BackendAnswers(n, j, fail, undef)
  /\ Forget
  /\ Lone
  /\ Idle

\* the stores of at most MaxIds keys
InitFew == Start({ store \in ListStores : Len(store) <= MaxIds })

SpecFlight == InitFew /\ [][NextFlight]_vars

\* nextObject() and toArray() on one cursor with any stages, the backend
\* answering later, with the item or with a failure
NextLive ==
  /\ \/ /\ \E condition \in {CondObj([string |-> "FOO"])}, projection \in {ProjObj({"string"})} :
             Find(condition, projection)
        /\ AtOnce
     \/ /\ \E order \in {SortObj(<< <<"decimal", -1>> >>)} : CursorSort(order)
        /\ AtOnce
     \/ /\ \E offset \in {1} : CursorOffset(offset)
        /\ AtOnce
     \/ /\ \E limit \in {1} : CursorLimit(limit)
        /\ AtOnce
     \/ CallNextObjectWithin(MaxLive)
     \/ CallToArrayWithin(MaxLive)
     \/ \E n \in 1..MaxLive, fail \in BOOLEAN : BackendAnswers(n, 1, fail, FALSE)
  /\ Forget
  /\ Lone
  /\ Idle

\* the backend answers a request of the n-th call
Answering(n) ==
  /\ \E fail \in BOOLEAN : BackendAnswers(n, 1, fail, FALSE)
  /\ Forget
  /\ Lone
  /\ Idle

\* every backend request is answered in the end
SpecLive == InitFew /\ [][NextLive]_vars /\ \A n \in 1..MaxLive : WF_vars(Answering(n))

\* pulls and rewinds on a cursor of the Source alone, while the store is written
\* to and erased from
NextSource ==
  /\ \/ Find(Absent, Absent)
     \/ \E e \in Envs : CursorNextObject(e)
     \/ CursorRewind
     \/ \E id \in KeyIds, item \in {[string |-> "BAR", decimal |-> 123]} : CollectionWrite(id, item, "ok")
     \/ \E id \in KeyIds : CollectionErase(id, "ok")
  /\ Listed
  /\ Lone
  /\ Idle
  /\ AtOnce

SpecSource == InitList /\ [][NextSource]_vars

\* two cursors on one collection, the caller going from one to the other
NextTwin ==
  /\ \/ \E condition \in {CondObj([string |-> "FOO"])} : FindFirst(condition, Absent)
     \/ \E condition \in {Absent} : FindAnother(condition, Absent)
     \/ Turn
     \/ /\ \E limit \in {1} : CursorLimit(limit)
        /\ Beside
     \/ /\ \E e \in Calm : CursorNextObject(e)
        /\ Beside
     \/ /\ CursorRewind
        /\ Beside
     \/ /\ \E e \in Calm : CursorToArrayCall(e, FALSE)
        /\ Beside
  /\ Forget
  /\ AtOnce
  /\ Idle

SpecTwin == InitFew /\ [][NextTwin]_vars

\* collection.findOne() beside a cursor
NextFindOne ==
  /\ \/ \E condition \in Conditions : Find(condition, Absent)
     \/ \E condition \in Conditions, e \in Envs : FindOneCall(condition, e)
  /\ Forget
  /\ Lone
  /\ Idle
  /\ AtOnce

SpecFindOne == Init /\ [][NextFindOne]_vars

\* pulls, rewinds and toArray() over chains of every stage, the history followed
NextRewind ==
  /\ \/ \E condition \in {Absent, CondObj([string |-> "FOO"])}, projection \in Projections :
          Find(condition, projection)
     \/ \E order \in {SortObj(<< <<"decimal", -1>> >>)} : CursorSort(order)
     \/ \E offset \in Counts : CursorOffset(offset)
     \/ \E limit \in Counts : CursorLimit(limit)
     \/ \E e \in Calm : CursorNextObject(e)
     \/ CursorRewind
     \/ \E e \in Calm : CursorToArrayCall(e, FALSE)
  /\ Remember
  /\ Lone
  /\ Idle
  /\ AtOnce

SpecRewind == InitList /\ [][NextRewind]_vars

\* every operation
Next ==
  /\ \/ \E condition \in Conditions, projection \in Projections : Find(condition, projection)
     \/ \E order \in Orders : CursorSort(order)
     \/ \E offset \in Counts : CursorOffset(offset)
     \/ \E limit \in Counts : CursorLimit(limit)
     \/ \E e \in Envs : CursorNextObject(e)
     \/ CursorRewind
     \/ \E e \in Envs, keep \in BOOLEAN : CursorToArrayCall(e, keep)
     \/ \E e \in Envs : CursorCountCall(e)
     \/ \E e \in Envs : CursorIndexCall(e)
     \/ \E condition \in Conditions, e \in Envs : CollectionCountCall(condition, e)
     \/ \E i \in 1..MaxHeld, m \in Mutations : CallerMutates(i, m)
  /\ Forget
  /\ Lone
  /\ Idle
  /\ AtOnce

Spec == Init /\ [][Next]_vars

(***************************************************************************)
(* Properties.                                                             *)
(***************************************************************************)
\* the items of the store in key-enumeration order
AllItems == [i \in 1..Len(db) |-> db[i].item]

\* the last operation was a toArray() that succeeded on a cursor no stage of
\* which had been pulled and whose memo was empty
FreshToArray ==
  /\ out.op = "toArray"
  /\ out.err = Null
  /\ out.pre.unstarted
  /\ ~out.pre.cached

\* how often x occurs in list
Occurrences(list, x) == Cardinality({i \in 1..Len(list) : list[i] = x})

IsPermutation(a, b) ==
  /\ Len(a) = Len(b)
  /\ \A i \in 1..Len(a) : Occurrences(a, a[i]) = Occurrences(b, a[i])

\* C1: find() with no condition followed by toArray() delivers one item per
\* key, in the order of the backend's key enumeration.
C1_FindAllInKeyOrder ==
  (FreshToArray /\ Len(chain) = 1) =>
    /\ out.list = Some(AllItems)
    /\ Len(out.list[1]) = Len(Ids(db))

C1_Witness ==
  /\ FreshToArray
  /\ Len(chain) = 1
  /\ Len(db) >= 2
  /\ out.list = Some(AllItems)
  /\ out.log = <<<<"index">>, <<"read", 1>>, <<"read", 2>>>> \o [i \in 1..(Len(db) - 2) |-> <<"read", i + 2>>]

\* what find(condition).toArray() delivers on a cursor of its own when no
\* backend request fails
FindToArray(condition) ==
  LET r == CursorToArray(NewCursor(condition, Absent), [db |-> db, failAt |-> 0, undef |-> FALSE])
  IN  [err |-> r.err, list |-> IF r.err # Null THEN <<>> ELSE r.c.heap[r.list[1]]]

\* C2: over a non-empty store, collection.count(condition) reports the length
\* of the list find(condition).toArray() delivers, for a test function, a
\* condition object and no condition.
C2_CountIsToArrayLength ==
  (out.op = "collection.count" /\ out.err = Null /\ db # <<>>) =>
    /\ FindToArray(out.arg[1]).err = Null
    /\ out.count = Some(Len(FindToArray(out.arg[1]).list))

\* counts that differ from the number of keys, and the count with no condition
C2_Witness ==
  /\ out.op = "collection.count"
  /\ out.err = Null
  /\ Len(db) >= 2
  /\ out.arg[1] = CondObj([string |-> "FOO", decimal |-> 123])
  /\ out.count = Some(1)
  /\ FindToArray(out.arg[1]).list = <<[string |-> "FOO", decimal |-> 123]>>

\* C3: on a cursor with sort/offset/limit stages, count() after a successful
\* toArray() succeeds and reports the length of the list toArray() delivered
\* (the list the cursor memoized).
C3_CountAfterToArray ==
  (out.op = "count" /\ out.pre.cached /\ Len(Added(chain)) >= 1) =>
    /\ out.err = Null
    /\ out.count = Some(Len(out.pre.memo[1]))

C3_Witness ==
  /\ out.op = "count"
  /\ out.pre.cached
  /\ Len(chain) = 2
  /\ chain[2].kind = "Offset"
  /\ chain[2].offset = 2
  /\ Len(db) = 3
  /\ out.err = Null
  /\ out.count = Some(1)
  /\ out.pre.memo = Some(<<ItemList[3]>>)

\* find() was given a condition that parses to a callable, and no projection
HasCondition ==
  /\ Truthy(query.condition)
  /\ IsFunction(ConditionParser(query.condition))
  /\ ~Truthy(query.projection)
  /\ Added(chain) = <<>>

Satisfies(item) == ApplyCondition(ConditionParser(query.condition), item)

\* C4: find(condition).toArray() delivers the items that satisfy the
\* condition, all of them and no other, in their key-enumeration order.
C4_ExactlyTheMatches ==
  (FreshToArray /\ HasCondition) => out.list = Some(SelectSeq(AllItems, Satisfies))

\* a match after a non-match, and a non-match after a match
C4_Witness ==
  /\ FreshToArray
  /\ HasCondition
  /\ query.condition = CondFn("isFOO")
  /\ Len(db) = 3
  /\ AllItems[1].string = "BAR"
  /\ AllItems[2].string = "FOO"
  /\ AllItems[3].string = "BAR"
  /\ out.list = Some(<<AllItems[2]>>)

\* find() was given a condition object, and no projection
HasConditionObject == HasCondition /\ query.condition.type = "object"

\* every field the condition object names has, in the item, the value it names
EveryFieldEqual(item) ==
  \A f \in DOMAIN query.condition.obj :
    f \in DOMAIN item /\ item[f] = query.condition.obj[f]

\* C5: a condition object matches an item iff every field it names equals
\* the item's value; the empty object matches every item.
C5_ConditionObjectIsAnd ==
  (FreshToArray /\ HasConditionObject) =>
    /\ out.list = Some(SelectSeq(AllItems, EveryFieldEqual))
    /\ query.condition.obj = EmptyObj => out.list = Some(AllItems)

\* a two-field object refusing the items that match on one field only
C5_Witness ==
  /\ FreshToArray
  /\ HasConditionObject
  /\ query.condition.obj = [string |-> "FOO", decimal |-> 123]
  /\ AllItems = <<[string |-> "FOO", decimal |-> 111], [string |-> "FOO", decimal |-> 123],
                  [string |-> "BAR", decimal |-> 123]>>
  /\ out.list = Some(<<[string |-> "FOO", decimal |-> 123]>>)

\* the last operation was a toArray() on a cursor no stage of which had been
\* pulled and whose memo was empty, over find() and one added stage of this kind
FirstToArrayOver(kind) ==
  /\ out.op = "toArray"
  /\ out.pre.unstarted
  /\ ~out.pre.cached
  /\ Len(chain) = 2
  /\ chain[2].kind = kind

\* C6: find().offset(k).toArray() over N readable keys delivers the max(0, N-k)
\* items from position k on, in order; for k >= N the empty list and no error.
C6_OffsetIsTail ==
  FirstToArrayOver("Offset") =>
    LET k == chain[2].offset
        N == Len(db)
    IN  /\ out.err = Null
        /\ out.list = Some([i \in 1..Max(0, N - k) |-> AllItems[k + i]])
        /\ k >= N => out.list = Some(<<>>)

\* a proper tail: two of three items skipped
C6_Witness ==
  /\ FirstToArrayOver("Offset")
  /\ chain[2].offset = 2
  /\ Len(db) = 3
  /\ out.err = Null
  /\ out.list = Some(<<ItemList[3]>>)

\* C7: find().limit(k).toArray() over N readable keys delivers the first
\* min(N, k) items of the unlimited list, in order.
C7_LimitIsHead ==
  FirstToArrayOver("Limit") =>
    LET k == chain[2].limit
        N == Len(db)
    IN  /\ out.err = Null
        /\ out.list = Some([i \in 1..Min(N, k) |-> AllItems[i]])

\* a proper head: two of three items
C7_Witness ==
  /\ FirstToArrayOver("Limit")
  /\ chain[2].limit = 2
  /\ Len(db) = 3
  /\ out.err = Null
  /\ out.list = Some(<<ItemList[1], ItemList[2]>>)

\* a first toArray() that succeeded over find().sort(order)
SortedToArray == FirstToArrayOver("Sort") /\ out.err = Null

\* the parsed order of the Sort stage is a sort object naming n fields
SortKeys(n) ==
  /\ IsFunction(chain[2].sorter)
  /\ chain[2].sorter.fn = "keys"
  /\ Len(chain[2].sorter.keys) = n

\* the values of field f never fall (dir = 1) or never rise (dir = -1) along list
Monotone(list, f, dir) ==
  \A i, j \in 1..Len(list) :
    i < j => IF dir = 1 THEN Rank(f, list[i][f]) <= Rank(f, list[j][f])
                        ELSE Rank(f, list[i][f]) >= Rank(f, list[j][f])

\* C8: find().sort(spec).toArray() delivers a permutation of the unsorted
\* result; with one ascending field the field is non-decreasing, with one
\* descending field non-increasing; a comparator function orders the list.
C8_SortIsOrderedPermutation ==
  SortedToArray =>
    LET list == out.list[1]
        sorter == chain[2].sorter
    IN  /\ IsPermutation(list, AllItems)
        /\ SortKeys(1) => Monotone(list, sorter.keys[1][1], sorter.keys[1][2])
        /\ (IsFunction(sorter) /\ sorter.fn # "keys") =>
             \A i, j \in 1..Len(list) : i < j => Compare(sorter, list[i], list[j]) <= 0

\* a descending sort that had to move items
C8_Witness ==
  /\ SortedToArray
  /\ SortKeys(1)
  /\ chain[2].sorter.keys[1] = <<"decimal", -1>>
  /\ AllItems = <<[string |-> "FOO", decimal |-> 111], [string |-> "BAR", decimal |-> 123],
                  [string |-> "FOO", decimal |-> 123]>>
  /\ out.list = Some(<<[string |-> "BAR", decimal |-> 123], [string |-> "FOO", decimal |-> 123],
                       [string |-> "FOO", decimal |-> 111]>>)

\* a comes strictly before b in the lexicographic order of the declared keys:
\* they tie on the first n-1 keys and key n, in its own direction, puts a first
LexBefore(keys, a, b) ==
  \E n \in 1..Len(keys) :
    /\ \A m \in 1..(n - 1) : a[keys[m][1]] = b[keys[m][1]]
    /\ IF keys[n][2] = 1
       THEN Rank(keys[n][1], a[keys[n][1]]) < Rank(keys[n][1], b[keys[n][1]])
       ELSE Rank(keys[n][1], a[keys[n][1]]) > Rank(keys[n][1], b[keys[n][1]])

\* C9: with a multi-field sort object the result is ordered lexicographically
\* by the declared fields, each in its own direction: no item comes after
\* one it precedes in that order.
C9_MultiKeyIsLexicographic ==
  (SortedToArray /\ SortKeys(2)) =>
    LET list == out.list[1]
        keys == chain[2].sorter.keys
    IN  \A i, j \in 1..Len(list) : i < j => ~LexBefore(keys, list[j], list[i])

\* a tie on the first field broken by the second, descending, against the
\* enumeration order
C9_Witness ==
  /\ SortedToArray
  /\ SortKeys(2)
  /\ chain[2].sorter.keys = << <<"decimal", 1>>, <<"string", -1>> >>
  /\ AllItems = <<[string |-> "BAR", decimal |-> 123], [string |-> "FOO", decimal |-> 123],
                  [string |-> "FOO", decimal |-> 111]>>
  /\ out.list = Some(<<[string |-> "FOO", decimal |-> 111], [string |-> "FOO", decimal |-> 123],
                       [string |-> "BAR", decimal |-> 123]>>)

\* C10: the arrays toArray() hands out on one cursor are delivered equal, each
\* is a copy of its own (it holds what its caller made of it and nothing
\* else), and the list a later toArray() delivers stays what was delivered.
C10_ToArrayCopies ==
  /\ \A i \in 1..Len(held) : heap[held[i].ref] = held[i].now
  /\ \A i, j \in 1..Len(held) : held[i].orig = held[j].orig /\ (i # j => held[i].ref # held[j].ref)
  /\ \A i \in 1..Len(held) : _toArray # None /\ heap[_toArray[1]] = held[i].orig
  /\ (out.op = "toArray" /\ out.err = Null /\ held # <<>>) => out.list = Some(held[1].orig)

\* a second toArray() after the caller changed the first array
C10_Witness ==
  /\ out.op = "toArray"
  /\ Len(held) = 2
  /\ held[1].now # held[1].orig
  /\ Len(held[1].orig) >= 2
  /\ held[2].now = held[1].orig
  /\ out.list = Some(held[1].orig)

\* C11: toArray(), then rewind(), then toArray() again: the second list
\* equals the first.
C11_ToArrayAfterRewind ==
  (/\ out.op = "toArray"
   /\ hist.prev.op = "rewind"
   /\ hist.prev2.op = "toArray"
   /\ hist.prev2.err = Null) =>
    /\ out.err = Null
    /\ out.list = hist.prev2.list

\* the first toArray() came after a pull, so its list is not the whole store
C11_Witness ==
  /\ out.op = "toArray"
  /\ hist.prev.op = "rewind"
  /\ hist.prev2.op = "toArray"
  /\ hist.prev2.err = Null
  /\ Len(chain) = 1
  /\ Len(db) = 3
  /\ out.list = Some(SubSeq(AllItems, 2, 3))

\* a stage as its constructor builds it from the arguments the stage keeps
Constructed(stage) ==
  CASE stage.kind = "Source" -> Source
    [] stage.kind = "Condition" -> Condition(stage.condition)
    [] stage.kind = "Projection" -> Projection(stage.projection)
    [] stage.kind = "Sort" -> [kind |-> "Sort", sorter |-> stage.sorter, list |-> None]
    [] stage.kind = "Offset" -> Offset(stage.offset)
    [] stage.kind = "Limit" -> Limit(stage.limit)

\* the chain of a fresh cursor built with the same stages
FreshChain(ch) == [i \in 1..Len(ch) |-> Constructed(ch[i])]

\* what repeated nextObject() calls on a chain in state ch deliver, up to the
\* end of the sequence, when no backend request fails
Delivered(ch) ==
  LET r == ToArray([chain |-> ch, log |-> <<>>], Len(ch), [db |-> db, failAt |-> 0, undef |-> FALSE])
  IN  [err |-> r.err, list |-> r.list]

\* C12: rewind() leaves every stage of the chain as a fresh cursor has it, so
\* the pulls that follow deliver what a fresh cursor with the same chain delivers.
C12_RewindResetsChain ==
  out.op = "rewind" =>
    /\ chain = FreshChain(chain)
    /\ Delivered(chain) = Delivered(FreshChain(chain))

\* a rewind after the end of the sequence, through a Condition and a Limit stage
C12_Witness ==
  /\ out.op = "rewind"
  /\ ~out.pre.unstarted
  /\ hist.prev.op = "nextObject"
  /\ hist.prev.err = Null
  /\ Len(chain) = 3
  /\ chain[2].kind = "Condition"
  /\ chain[3].kind = "Limit"
  /\ chain[3].limit = 1
  /\ Len(db) = 3
  /\ Delivered(chain).list = Some(<<ItemList[1]>>)

\* the last backend request of an operation failed
Failed(log) == log # <<>> /\ log[Len(log)][1] \in {"index failed", "read failed"}

\* a condition argument find() can use: none, or one that parses to a callable
Usable(condition) == ~Truthy(condition) \/ IsFunction(ConditionParser(condition))

\* the item satisfies the condition argument; every item does when there is none
Matching(condition, item) ==
  ~Truthy(condition) \/ ApplyCondition(ConditionParser(condition), item)

\* the first item of the store, in key-enumeration order, that satisfies the condition
FirstMatch(condition) ==
  IF \E i \in 1..Len(db) : Matching(condition, AllItems[i])
  THEN Some(AllItems[CHOOSE i \in 1..Len(db) :
                       /\ Matching(condition, AllItems[i])
                       /\ \A j \in 1..(i - 1) : ~Matching(condition, AllItems[j])])
  ELSE None

\* C13: findOne(condition) delivers the first item in key-enumeration order
\* that satisfies the condition (the first item for null and {}), neither an
\* error nor an item when none does, and a backend error as the error alone.
C13_FindOneFirstMatch ==
  out.op = "findOne" =>
    /\ out.err # Null => out.item = None
    /\ Failed(out.log) => out.err = "BackendError"
    /\ (Usable(out.arg[1]) /\ ~Failed(out.log)) =>
         /\ out.err = Null
         /\ out.item = FirstMatch(out.arg[1])
    /\ (out.arg[1] \in {Absent, CondObj(EmptyObj)} /\ ~Failed(out.log) /\ db # <<>>) =>
         out.item = Some(AllItems[1])

\* the first match is not the first item, and a later item matches as well
C13_Witness ==
  /\ out.op = "findOne"
  /\ out.arg[1] = CondObj([string |-> "FOO"])
  /\ AllItems = <<[string |-> "BAR", decimal |-> 123], [string |-> "FOO", decimal |-> 111],
                  [string |-> "FOO", decimal |-> 123]>>
  /\ out.err = Null
  /\ out.item = Some([string |-> "FOO", decimal |-> 111])

\* find() was given a usable condition and a field-inclusion projection
HasProjection ==
  /\ Usable(query.condition)
  /\ Truthy(query.projection)
  /\ query.projection.type = "object"
  /\ Added(chain) = <<>>

\* the delivered list is plain, item by item, cut down to the fields
Projected(list, plain, fields) ==
  /\ Len(list) = Len(plain)
  /\ \A i \in 1..Len(list) :
       /\ DOMAIN list[i] = fields
       /\ \A f \in fields : list[i][f] = plain[i][f]

\* C14: find(condition, projection) with a field-inclusion projection delivers
\* as many items as find(condition), in the same order, each with exactly the
\* whitelisted fields and their original values; the store is left as it was.
C14_ProjectionKeepsWhitelist ==
  /\ [](FreshToArray /\ HasProjection =>
          Projected(out.list[1], FindToArray(query.condition).list, query.projection.fields))
  /\ [][out'.op = "toArray" => db' = db]_vars

\* one field kept of two, under a condition that refuses an item
C14_Witness ==
  /\ FreshToArray
  /\ HasProjection
  /\ query.condition = CondObj([string |-> "FOO"])
  /\ query.projection.fields = {"decimal"}
  /\ AllItems = <<[string |-> "FOO", decimal |-> 111], [string |-> "BAR", decimal |-> 123],
                  [string |-> "FOO", decimal |-> 123]>>
  /\ out.list = Some(<<[decimal |-> 111], [decimal |-> 123]>>)

\* the items a list of callback invocations carried
CallItems(calls) == [k \in 1..Len(calls) |-> calls[k].item[1]]

\* C15: each() invokes the callback once per item in pipeline order and then
\* exactly once more, with no item or with an error; that invocation is the
\* last, no pull follows it, and the cursor is left where the pulls took it.
C15_EachEndsOnce ==
  out.op = "each" =>
    LET n == Len(out.calls) IN
    /\ n >= 1
    /\ \A k \in 1..(n - 1) : out.calls[k].err = Null /\ out.calls[k].item # None
    /\ out.calls[n].err # Null \/ out.calls[n].item = None
    /\ out.pulls = n
    /\ Failed(out.log) =>
         /\ out.calls[n].err = "BackendError"
         /\ out.log[Len(out.log)][1] \in {"index failed", "read failed"}
    /\ (out.pre.unstarted /\ out.calls[n].err = Null) =>
         /\ Delivered(FreshChain(chain)).err = Null
         /\ CallItems(SubSeq(out.calls, 1, n - 1)) = Delivered(FreshChain(chain)).list[1]
         /\ out.calls[n] = [err |-> Null, item |-> None]
    /\ out.calls[n].err = Null => Delivered(chain).list = Some(<<>>)

\* two items handed over, then the end, on three pulls; the cursor stays at its end
C15_Witness ==
  /\ out.op = "each"
  /\ out.pre.unstarted
  /\ Len(chain) = 2
  /\ chain[2].kind = "Condition"
  /\ Len(out.calls) = 3
  /\ out.pulls = 3
  /\ out.calls[1].item # None
  /\ out.calls[2].item # None
  /\ out.calls[1].item # out.calls[2].item
  /\ out.calls[3] = [err |-> Null, item |-> None]
  /\ ~Unstarted(chain)

\* a backend request of the operation failed
SomeFailed(log) == \E k \in 1..Len(log) : log[k][1] \in {"index failed", "read failed"}

\* C16: when an index or read request fails while toArray() drains the chain,
\* the callback gets that error and no list, no request follows the failed
\* one, and the cursor's toArray memo stays empty.
C16_ToArrayErrorNoPartial ==
  (out.op = "toArray" /\ SomeFailed(out.log)) =>
    /\ ~out.pre.cached
    /\ out.err = "BackendError"
    /\ out.list = None
    /\ Failed(out.log)
    /\ _toArray = None

\* a read fails after another read of the same toArray() had delivered an item
C16_Witness ==
  /\ out.op = "toArray"
  /\ Len(out.log) = 2
  /\ out.log[1][1] = "read"
  /\ out.log[2][1] = "read failed"
  /\ out.err = "BackendError"
  /\ out.list = None
  /\ _toArray = None

\* the key the last storage operation named, and what the caller knew of it
\* when the operation was issued (an exist or read leaves that as it was)
Named == out.arg[1]

Arrived == out.arg[2] = "ok"

C19_MemoIsComplete ==
  (out.op = "toArray" /\ out.err = Null /\ ~out.pre.cached) =>
    /\ _toArray # None
    /\ Delivered(FreshChain(chain)).err = Null
    /\ Some(heap[_toArray[1]]) = Delivered(FreshChain(chain)).list

\* C20: once toArray() has succeeded on a cursor, the memo stays as it is
\* through sort()/offset()/limit(), rewind(), writes and erases, and every
\* later toArray() on that cursor delivers it without a backend request.
C20_MemoNeverInvalidated ==
  /\ []((out.op = "toArray" /\ out.pre.cached) =>
          /\ out.err = Null
          /\ out.list = out.pre.memo
          /\ out.log = <<>>)
  /\ [][(_toArray # None /\ out'.op # "find") =>
          /\ _toArray' # None
          /\ heap'[_toArray'[1]] = heap[_toArray[1]]]_vars

\* the memo of two items is delivered after limit(0) was added and the store emptied
C20_Witness ==
  /\ out.op = "toArray"
  /\ out.pre.cached
  /\ Len(chain) = 2
  /\ chain[2].kind = "Limit"
  /\ chain[2].limit = 0
  /\ db = <<>>
  /\ out.list = Some(<<ItemList[1], ItemList[2]>>)

\* C22: once a nextObject() has signalled the end of the sequence, every
\* later nextObject() on the cursor signals it too, without error, whatever
\* stages are added meanwhile, until rewind() is called.
C22_EndPersists ==
  [][(hist.ended /\ out'.op = "nextObject") =>
       /\ out'.err = Null
       /\ out'.item = None]_vars

\* the end is signalled again after two items were delivered and a sort was added
C22_Witness ==
  /\ hist.ended
  /\ out.op = "nextObject"
  /\ out.item = None
  /\ out.log = <<>>
  /\ Len(db) = 2
  /\ Len(chain) = 2
  /\ chain[2].kind = "Sort"
  /\ chain[2].list = Some(<<>>)
  /\ chain[1].list = Some(<<>>)

\* a fresh toArray() after exactly the chain methods first, then second were
\* called on what find() returned
FreshAfter(first, second) ==
  /\ FreshToArray
  /\ Len(hist.calls) = 2
  /\ hist.calls[1].op = first
  /\ hist.calls[2].op = second

\* C23: each added stage consumes the output of the head it wrapped: over N
\* items find().offset(a).limit(b) delivers the items a+1 .. min(N, a+b) of the
\* key order, and find().limit(b).offset(a) the items a+1 .. min(N, b).
C23_StagesInCallOrder ==
  /\ FreshAfter("offset", "limit") =>
       out.list = Some(SubSeq(AllItems, hist.calls[1].stage.offset + 1,
                              Min(Len(AllItems), hist.calls[1].stage.offset + hist.calls[2].stage.limit)))
  /\ FreshAfter("limit", "offset") =>
       out.list = Some(SubSeq(AllItems, hist.calls[2].stage.offset + 1,
                              Min(Len(AllItems), hist.calls[1].stage.limit)))

\* limit(2).offset(1) over three items delivers the second item only
C23_Witness ==
  /\ FreshAfter("limit", "offset")
  /\ hist.calls[1].stage.limit = 2
  /\ hist.calls[2].stage.offset = 1
  /\ Len(AllItems) = 3
  /\ out.list = Some(<<AllItems[2]>>)


\* the list a toArray() on a cursor nobody has pulled from delivers
Complete == Delivered(FreshChain(chain)).list

\* only toArray() has been called on the cursor, and no call was handed an error
OnlyToArray ==
  \A n \in 1..Len(inflight) :
    /\ inflight[n].op = "toArray"
    /\ \A i \in 1..Len(inflight[n].calls) : inflight[n].calls[i].err = Null

\* C21: toArray() calls that overlap on one cursor (the later issued while the
\* earlier waits for the backend) are each handed the complete list, and the
\* memo holds the complete list.
C21_OverlappingToArrayComplete ==
  OnlyToArray =>
    /\ \A n \in 1..Len(inflight) : \A i \in 1..Len(inflight[n].calls) :
         inflight[n].calls[i].val = Complete
    /\ _toArray # None => Some(heap[_toArray[1]]) = Complete

\* the requests one call alone on the cursor issues: the listing, then the keys one by one
Alone(log) ==
  \A a \in 1..Len(log) : log[a] = IF a = 1 THEN <<"index">> ELSE <<"read", a - 1>>

\* C24: a toArray(), each() or count() never has more than one backend request
\* outstanding, whatever other calls are in flight; the one call issued on a
\* cursor asks for the listing and then for each key in turn, in enumeration order.
C24_OneRequestAtATime ==
  \A n \in 1..Len(inflight) :
    /\ Len(inflight[n].reqs) <= 1
    /\ Len(inflight) = 1 => Alone(inflight[n].log)

\* an each() that has read every key of the store and a toArray() that waits
\* for its second key
C24_Witness ==
  /\ Len(db) = 2
  /\ Len(inflight) = 2
  /\ inflight[1].op = "each"
  /\ inflight[1].log = << <<"index">>, <<"read", 1>>, <<"read", 2>> >>
  /\ Len(inflight[1].calls) = 3
  /\ inflight[2].op = "toArray"
  /\ Len(inflight[2].reqs) = 1
  /\ inflight[2].reqs[1].req = <<"read", 2>>

\* the n-th call issued on the cursor has invoked its callback
Fired(n) == Len(inflight) >= n /\ Len(inflight[n].calls) = 1

\* C28: when every backend request is answered, each nextObject() and each
\* toArray() issued on a cursor, whatever its stages, invokes its callback in
\* the end, and no call invokes it a second time or keeps a request
\* outstanding once it has.
C28_CallbackFiresOnce ==
  /\ [](\A n \in 1..Len(inflight) :
          /\ Len(inflight[n].calls) <= 1
          /\ Len(inflight[n].calls) = 1 => inflight[n].reqs = <<>>)
  /\ \A n \in 1..MaxLive : (Len(inflight) >= n) ~> Fired(n)

\* a nextObject() through a Condition, a Projection and an Offset stage that
\* read both keys of the store before it was handed the end of the sequence
C28_Witness ==
  /\ Len(chain) = 4
  /\ chain[2].kind = "Condition"
  /\ chain[3].kind = "Projection"
  /\ chain[4].kind = "Offset"
  /\ Len(inflight) = 1
  /\ inflight[1].op = "nextObject"
  /\ inflight[1].log = << <<"index">>, <<"read", 1>>, <<"read", 2>> >>
  /\ inflight[1].calls = <<[err |-> Null, val |-> None]>>

\* the keys a nextObject() on the Source has before it: those left of the
\* listing it holds, or those the store lists when it holds none
Ahead == IF hist.listing # None THEN hist.listing[1] ELSE Ids(db)

\* C25 as stated: between construction (or a rewind) and the next rewind the
\* listing is asked for exactly once, on the first nextObject(), and every
\* later nextObject() issues exactly one read.
C25_IndexExactlyOnce ==
  /\ hist.pulls >= 1 => hist.asked = 1
  /\ (out.op = "nextObject" /\ hist.pulls = 2) => Reads(out.log) = 1 /\ Indexes(out.log) = 0

\* C25: a nextObject() on the Source asks for the listing exactly when no
\* listing has been answered since construction or the last rewind (so once,
\* on the first call, unless that request fails), and never once one has; it
\* then issues exactly one read, for the next key of that listing, while keys
\* are left, and none when the listing request failed or no key is left.
C25_IndexUntilAnswered ==
  [][out'.op = "nextObject" =>
       /\ Indexes(out'.log) = IF hist.listing = None THEN 1 ELSE 0
       /\ hist.listing = None => out'.log[1][1] \in {"index", "index failed"}
       /\ Reads(out'.log) = IF out'.log # <<>> /\ out'.log[1] = <<"index failed">> THEN 0
                            ELSE IF Ahead = <<>> THEN 0 ELSE 1
       /\ Reads(out'.log) = 1 => out'.log[Len(out'.log)][2] = Head(Ahead)]_vars

\* the third nextObject() since the cursor was made: the first two asked for
\* the listing, which failed the first time, and this one reads the second key
C25_Witness ==
  /\ out.op = "nextObject"
  /\ hist.asked = 2
  /\ hist.pulls = 2
  /\ hist.listing = Some(<<>>)
  /\ out.log = << <<"read", 2>> >>
  /\ out.err = Null

\* the ids the read requests of a log name, answered or failed
ReadIds(log) ==
  LET reads == SelectSeq(log, LAMBDA q : q[1] \in {"read", "read failed"})
  IN  [n \in 1..Len(reads) |-> reads[n][2]]

\* what a read of id hands back from the store as it is now
Held(id, o) ==
  \/ o.err = "BackendError"
  \/ ~HasId(db, id) /\ o.err = "NotFound" /\ o.item = None
  \/ HasId(db, id) /\ o.err = Null /\ o.item = Some(ItemOf(db, id))

\* C26: the ids nextObject() reads are those of the listing the Source was
\* answered, in its order, whatever was written to or erased from the store
\* since (the read hands back what the store holds for the id now); after
\* rewind() the next nextObject() asks for the listing again and reads the
\* first key the store lists then.
C26_ListingFixedAtFetch ==
  [][out'.op = "nextObject" =>
       /\ hist.listing # None =>
            /\ out'.log = IF hist.listing[1] = <<>> THEN <<>>
                          ELSE IF out'.err = "BackendError"
                          THEN << <<"read failed", Head(hist.listing[1])>> >>
                          ELSE << <<"read", Head(hist.listing[1])>> >>
            /\ hist.listing[1] # <<>> => Held(Head(hist.listing[1]), out')
       /\ hist.listing = None =>
            /\ out'.log # <<>>
            /\ out'.log[1][1] \in {"index", "index failed"}
            /\ out'.log[1] = <<"index">> =>
                 /\ ReadIds(out'.log) = IF db = <<>> THEN <<>> ELSE <<Head(Ids(db))>>
                 /\ db # <<>> => Held(Head(Ids(db)), out')]_vars

\* a nextObject() that reads key 2 of the listing after key 2 was erased
C26_Witness ==
  /\ out.op = "nextObject"
  /\ out.log = << <<"read", 2>> >>
  /\ out.err = "NotFound"
  /\ ~HasId(db, 2)
  /\ HasId(db, 1)
  /\ hist.listing = Some(<<>>)

\* C29: when a backend request of a nextObject() fails, the caller's callback
\* is handed the backend's error and no item, whatever stages the chain has,
\* and the failed request is the last the call issues: no stage pulls again and
\* none asks a second time.
C29_BackendErrorVerbatim ==
  out.op = "nextObject" =>
    /\ SomeFailed(out.log) =>
         /\ out.err = "BackendError"
         /\ out.item = None
         /\ Failed(out.log)
         /\ ~SomeFailed(SubSeq(out.log, 1, Len(out.log) - 1))
    /\ out.err = "BackendError" => Failed(out.log)

\* the read of the first key fails while an Offset stage over a Condition and
\* a Projection stage is skipping its first item
C29_Witness ==
  /\ out.op = "nextObject"
  /\ Len(chain) = 4
  /\ chain[2].kind = "Condition"
  /\ chain[3].kind = "Projection"
  /\ chain[4].kind = "Offset"
  /\ chain[4].offset = 1
  /\ out.err = "BackendError"
  /\ out.log = << <<"index">>, <<"read failed", 1>> >>

\* find() was given a condition the parser turned into something that is not callable
Unusable == Truthy(query.condition) /\ ~Usable(query.condition)

\* every Limit stage of the chain still lets a pull through
Open(ch) == \A i \in 1..Len(ch) : ch[i].kind = "Limit" => ch[i].rest > 0

\* C30: on a cursor whose condition is not callable, a nextObject() that
\* reaches the Condition stage is handed the "invalid condition" error and no
\* item, and each() invokes its callback once, with that error; neither issues
\* a backend request.
C30_InvalidConditionFails ==
  [][(Unusable /\ out'.op \in {"nextObject", "each"}) =>
       /\ out'.log = <<>>
       /\ (Open(chain) /\ out'.op = "nextObject") =>
            /\ out'.err = "invalid condition"
            /\ out'.item = None
       /\ (Open(chain) /\ out'.op = "each") =>
            /\ out'.calls = <<[err |-> "invalid condition", item |-> None]>>
            /\ out'.pulls = 1]_vars

\* each() over a Limit stage on a cursor with an invalid condition and a store
\* of three keys: one callback, with the error
C30_Witness ==
  /\ Unusable
  /\ Len(db) = 3
  /\ Len(chain) = 3
  /\ chain[3].kind = "Limit"
  /\ chain[3].limit = 2
  /\ out.op = "each"
  /\ out.calls = <<[err |-> "invalid condition", item |-> None]>>
  /\ out.log = <<>>

\* the last operation was one on the cursor at hand
OnCursor(o) == o.op \in {"nextObject", "rewind", "toArray", "sort", "offset", "limit"}

\* C27: with two cursors on one collection, an operation on one (a pull, a
\* rewind, a toArray(), an added stage) leaves the other's stages, position and
\* memos as they were, and whatever was done with the other, a toArray() on a
\* cursor not yet pulled from delivers what that cursor delivers alone.
C27_CursorsIndependent ==
  /\ [](FreshToArray => out.list = Delivered(FreshChain(chain)).list)
  /\ [][(twin.park # None /\ OnCursor(out')) => twin'.park = twin.park]_vars
  /\ [][out'.op = "turn" => /\ twin'.park = Some(AtHand)
                            /\ chain' = twin.park[1].chain
                            /\ _toArray' = twin.park[1]._toArray
                            /\ _index' = twin.park[1]._index]_vars

\* the caller has pulled the first item from one cursor, drained the other
\* with toArray(), and back at the first is handed the second item
C27_Witness ==
  /\ twin.park # None
  /\ twin.park[1]._toArray # None
  /\ twin.park[1].heap[twin.park[1]._toArray[1]] = <<ItemList[1]>>
  /\ Len(twin.park[1].chain) = 2
  /\ Len(db) = 2
  /\ out.op = "nextObject"
  /\ out.item = Some(ItemList[2])
  /\ _toArray = None
  /\ chain = <<[kind |-> "Source", list |-> Some(<<>>)]>>


(***************************************************************************)
(* Specifications that do not parse to a callable.                         *)
(***************************************************************************)
Flaws == { Absent, Invalid }

\* find() with a condition and a projection that may each be unusable, then pulls
\* and rewinds
NextFlaw ==
  /\ \/ \E condition \in Flaws \cup {CondObj([string |-> "FOO"])},
           projection \in Flaws \cup {ProjObj({"string"})} : Find(condition, projection)
     \/ \E e \in Envs : CursorNextObject(e)
     \/ CursorRewind
  /\ Remember
  /\ Lone
  /\ Idle
  /\ AtOnce

SpecFlaw == Init /\ [][NextFlaw]_vars

\* the error of the topmost stage of the chain whose specification is not callable
RECURSIVE FlawFrom(_, _)
FlawFrom(ch, i) ==
  IF i = 0 THEN Null
  ELSE IF ch[i].kind = "Projection" /\ ~IsFunction(ch[i].projection) THEN "invalid projection"
  ELSE IF ch[i].kind = "Condition" /\ ~IsFunction(ch[i].condition) THEN "invalid condition"
  ELSE FlawFrom(ch, i - 1)

Flaw(ch) == FlawFrom(ch, Len(ch))

FlawErrors == {"invalid condition", "invalid projection"}

LimitHead == chain # <<>> /\ chain[Len(chain)].kind = "Limit"

\* the stages beneath the head
Beneath(ch) == SubSeq(ch, 1, Len(ch) - 1)

\* C32: a Limit stage of count N has N - max(rest, 0) calls forwarded since it
\* was made or rewound, never more than N: every nextObject() takes one from
\* rest, a call that finds rest > 0 is the one call forwarded to the upstream,
\* and a call that finds rest <= 0 signals the end with no backend request and
\* the upstream left as it was; each() over a spent Limit issues no request
\* either, and with limit(0) no call ever does; rewind puts rest back to N.
C32_LimitForwardsAtMostN ==
  /\ [](LimitHead => chain[Len(chain)].rest <= chain[Len(chain)].limit)
  /\ [][/\ out'.op = "limit" => chain'[Len(chain')].rest = chain'[Len(chain')].limit
        /\ (LimitHead /\ out'.op = "rewind") => chain'[Len(chain')].rest = chain[Len(chain)].limit
        /\ (LimitHead /\ out'.op = "nextObject") =>
             /\ chain'[Len(chain')].rest = chain[Len(chain)].rest - 1
             /\ chain[Len(chain)].rest <= 0 =>
                  /\ out'.log = <<>>
                  /\ out'.err = Null
                  /\ out'.item = None
                  /\ Beneath(chain') = Beneath(chain)
        /\ (LimitHead /\ out'.op = "each" /\ chain[Len(chain)].rest <= 0) =>
             /\ out'.log = <<>>
             /\ Beneath(chain') = Beneath(chain)
        /\ (LimitHead /\ out'.op \in {"nextObject", "each"} /\ chain[Len(chain)].limit = 0) =>
             out'.log = <<>>]_vars

\* the second nextObject() on find().limit(1) over three keys: the end, no
\* request, and the two keys not asked for still with the Source
C32_Witness ==
  /\ Len(db) = 3
  /\ Len(chain) = 2
  /\ LimitHead
  /\ chain[2].limit = 1
  /\ chain[2].rest = -1
  /\ chain[1].list = Some(<<2, 3>>)
  /\ out.op = "nextObject"
  /\ out.item = None
  /\ out.err = Null
  /\ out.log = <<>>


(***************************************************************************)
(* sort() and limit() chained in either order.                             *)
(***************************************************************************)
NextDrain ==
  /\ \/ Find(Absent, Absent)
     \/ \E order \in {SortObj(<< <<"decimal", -1>> >>), SortObj(<< <<"string", 1>> >>)} :
          WrapWithin(MaxWraps, "sort", Sort(order))
     \/ \E limit \in Counts : WrapWithin(MaxWraps, "limit", Limit(limit))
     \/ \E e \in Envs : CursorNextObject(e)
     \/ CursorRewind
     \/ \E e \in Calm : CursorToArrayCall(e, FALSE)
  /\ Called
  /\ Lone
  /\ Idle
  /\ AtOnce

SpecDrain == InitList /\ [][NextDrain]_vars

\* the head of the chain is a Sort stage
SortHead == chain # <<>> /\ chain[Len(chain)].kind = "Sort"

\* the first k elements of a list
FirstOf(list, k) == SubSeq(list, 1, Min(k, Len(list)))

\* what a nextObject() on a Sort head with the given buffer does: the buffer's
\* first item leaves it, or the end is signalled
Served(sorted) ==
  /\ out'.item = IF sorted = <<>> THEN None ELSE Some(Head(sorted))
  /\ chain'[Len(chain)].list = Some(IF sorted = <<>> THEN <<>> ELSE Tail(sorted))

\* a nextObject() on a Sort stage without a buffer that is handed no error has
\* taken everything its upstream had to deliver, sorted it, and delivered the
\* first item of the sorted order; a nextObject() on a Sort stage with a buffer
\* issues no backend request and leaves the upstream as it was
SortDrainsThenServes ==
  [][(SortHead /\ out'.op = "nextObject") =>
       /\ (chain[Len(chain)].list = None /\ out'.err = Null) =>
            /\ Delivered(Beneath(chain')).list = Some(<<>>)
            /\ Served(ArraySort(Delivered(Beneath(chain)).list[1], chain[Len(chain)].sorter))
       /\ chain[Len(chain)].list # None =>
            /\ out'.err = Null
            /\ out'.log = <<>>
            /\ Beneath(chain') = Beneath(chain)
            /\ Served(chain[Len(chain)].list[1])]_vars

\* a fresh toArray() on find().sort(s).limit(k) has read `reads` keys and
\* delivers the first k items of the sorted order
SortThenLimit(reads) ==
  FreshAfter("sort", "limit") =>
    /\ Reads(out.log) = reads
    /\ out.list = Some(FirstOf(ArraySort(AllItems, hist.calls[1].stage.sorter),
                               hist.calls[2].stage.limit))

\* a fresh toArray() on find().limit(k).sort(s) has read `reads` keys and
\* delivers the first k items of the key order, sorted
LimitThenSort(reads) ==
  FreshAfter("limit", "sort") =>
    /\ Reads(out.log) = reads
    /\ out.list = Some(ArraySort(FirstOf(AllItems, hist.calls[1].stage.limit),
                                 hist.calls[2].stage.sorter))

\* C33 as amended: a Sort stage drains its upstream on the first nextObject()
\* and serves every later one from its buffer; find().sort(s).limit(k) reads
\* every key when k >= 1 and none when k = 0, and delivers the k first items of
\* the sorted order; find().limit(k).sort(s) reads min(k, N) of the N keys and
\* delivers the first k items of the key order, sorted.
C33_SortDrainsUpstream ==
  /\ SortDrainsThenServes
  /\ [](/\ SortThenLimit(IF hist.calls[2].stage.limit = 0 THEN 0 ELSE Len(db))
        /\ LimitThenSort(Min(hist.calls[1].stage.limit, Len(db))))

\* find().sort({decimal: -1}).limit(1).toArray() over three keys: three reads,
\* and the item of the third key delivered
C33_Witness ==
  /\ Len(db) = 3
  /\ FreshAfter("sort", "limit")
  /\ hist.calls[1].stage.sorter.keys = << <<"decimal", -1>> >>
  /\ hist.calls[2].stage.limit = 1
  /\ Reads(out.log) = 3
  /\ out.list = Some(<<db[3].item>>)

\* C33 as claimed: find().sort(s).limit(k) reads every key, whatever k
C33_SortThenLimitReadsAll ==
  /\ SortDrainsThenServes
  /\ [](/\ SortThenLimit(Len(db))
        /\ LimitThenSort(Min(hist.calls[1].stage.limit, Len(db))))


(***************************************************************************)
(* An offset over a backend that fails: stores of up to MaxKeys + 1 keys,  *)
(* a fault at up to the (MaxFail + 1)-th request of a call.                *)
(***************************************************************************)
LongStores ==
  { [i \in 1..n |-> [id |-> i, item |-> ItemList[i]]] : n \in 0..Min(MaxKeys + 1, Len(ItemList)) }

Faults == { [db |-> db, failAt |-> k, undef |-> FALSE] : k \in 0..(MaxFail + 1) }

NextSkip ==
  /\ \/ Find(Absent, Absent)
     \/ \E offset \in Counts : CursorOffset(offset)
     \/ \E e \in Faults : CursorNextObject(e)
     \/ CursorRewind
  /\ Skipped
  /\ Lone
  /\ Idle
  /\ AtOnce

SpecSkip == Start(LongStores) /\ [][NextSkip]_vars

\* the head of the chain is an Offset stage
OffsetHead == chain # <<>> /\ chain[Len(chain)].kind = "Offset"

\* C34: between rewinds an Offset stage of count N discards the first N items
\* its upstream delivers and never more, whatever errors interrupt it; once the
\* N-th item is discarded every later call passes straight through.
C34_OffsetDiscardsExactlyN ==
  /\ [](OffsetHead =>
         /\ hist.skipped <= chain[Len(chain)].offset
         /\ chain[Len(chain)].ready => hist.skipped = chain[Len(chain)].offset)
  /\ [][(OffsetHead /\ chain[Len(chain)].ready /\ out'.op = "nextObject") =>
          hist'.skipped = hist.skipped]_vars


\* C35: count() on a cursor of the bare Source issues no read and at most the
\* one index request (none when the listing is memoised), and pulls no stage;
\* on a cursor with a stage it leaves the list toArray() materializes in the
\* memo and reports its length; a failed backend request is delivered as the
\* error, and an error comes with no count.
C35_CountByIndexOrToArray ==
  [][(chain # <<>> /\ out'.op = "count") =>
       /\ Len(chain) = 1 =>
            /\ Reads(out'.log) = 0
            /\ Len(out'.log) = (IF _index = None THEN 1 ELSE 0)
            /\ chain' = chain
            /\ _toArray' = _toArray
       /\ (Len(chain) > 1 /\ out'.err = Null) =>
            /\ _toArray' # None
            /\ out'.count = Some(Len(heap'[_toArray'[1]]))
            /\ _toArray = None => out'.count = Some(Len(Delivered(chain).list[1]))
       /\ Failed(out'.log) => out'.err = "BackendError"
       /\ out'.err # Null <=> out'.count = None]_vars

\* count() on find() over three keys: the index request alone, and 3
C35_Witness ==
  /\ Len(db) = 3
  /\ Len(chain) = 1
  /\ chain[1].list = None
  /\ out.op = "count"
  /\ out.count = Some(3)
  /\ out.log = << <<"index">> >>


\* the position in the key order of the first item that satisfies the
\* condition; the number of keys when none does
FirstMatchAt(condition) ==
  IF \E i \in 1..Len(db) : Matching(condition, AllItems[i])
  THEN CHOOSE i \in 1..Len(db) :
         /\ Matching(condition, AllItems[i])
         /\ \A j \in 1..(i - 1) : ~Matching(condition, AllItems[j])
  ELSE Len(db)

\* C36: the reads findOne(condition) issues are those of the keys in key order
\* up to and including the first key whose item satisfies the condition (of
\* every key when no item does), each once, and of no key after it; a failed
\* request ends them earlier.
C36_FindOneStopsAtFirstMatch ==
  (out.op = "findOne" /\ Usable(out.arg[1])) =>
    /\ Indexes(out.log) <= 1
    /\ ReadIds(out.log) = SubSeq(Ids(db), 1, Len(ReadIds(out.log)))
    /\ Len(ReadIds(out.log)) <= FirstMatchAt(out.arg[1])
    /\ (~Failed(out.log) /\ out.log # <<>>) =>
         /\ Len(ReadIds(out.log)) = FirstMatchAt(out.arg[1])
         /\ out.item = FirstMatch(out.arg[1])

\* the second of three keys is the first match, the third matches as well: the
\* listing and two reads
C36_Witness ==
  /\ out.op = "findOne"
  /\ out.arg[1] = CondObj([string |-> "FOO"])
  /\ Len(db) = 3
  /\ ~Matching(out.arg[1], AllItems[1])
  /\ Matching(out.arg[1], AllItems[2])
  /\ Matching(out.arg[1], AllItems[3])
  /\ out.log = << <<"index">>, <<"read", 1>>, <<"read", 2>> >>
  /\ out.item = Some(AllItems[2])


(***************************************************************************)
(* The web API (mixin/webapi.js).  A request req = [verb, method, id,      *)
(* content, condition, projection, limit, offset, sort]: method is "" when *)
(* the request names none, and a parameter is a number (a JSON body), the  *)
(* text of a number (a query string or a form) or absent.  The answer is   *)
(* [store, status, body, did, log]: status is None when no response is     *)
(* sent, did the collection operations called.                             *)
(***************************************************************************)
Num(n) == [type |-> "number", n |-> n]

\* the decimal text of n
Str(n) == [type |-> "string", n |-> n]

\* if (value): a number other than 0, a text that is not empty, an object
JsTruthy(v) ==
  CASE v.type = "null" -> FALSE
    [] v.type = "number" -> v.n # 0
    [] OTHER -> TRUE

\* the number a counter holds once -- or > has been applied to the value
ToNumber(v) == v.n

Drop(list, n) == SubSeq(list, n + 1, Len(list))

ApiMethods == {"read", "write", "erase", "exist", "find", "count", "index"}

\* what else methods[name] finds on the way up from a WebapiMethods object:
\* progress on WebapiMethods.prototype, and the constructor; neither touches
\* its arguments
Inherited == {"progress", "constructor"}

\* methods[name] is set
Resolves(name) == name \in ApiMethods \cup Inherited

\* the switch of getParams over the HTTP verb
DefaultMethod(verb) ==
  CASE verb = "get" -> "read"
    [] verb = "put" -> "write"
    [] verb = "delete" -> "erase"
    [] verb = "head" -> "read"
    [] OTHER -> ""

\* getParams(req)
GetParams(req) ==
  IF req.method = "" THEN [req EXCEPT !.method = DefaultMethod(req.verb)] ELSE req

Answering500(store, did, log) ==
  [store |-> store, status |-> Some(500), body |-> NoData, did |-> did, log |-> log]

Sending(store, body, did, log) ==
  [store |-> store, status |-> Some(200), body |-> body, did |-> did, log |-> log]

\* WebapiMethods.prototype.read; the fail-th collection call fails
WebRead(store, params, fail) ==
  IF fail = 1 THEN Answering500(store, <<"exist">>, <<>>)
  ELSE IF ~StoreExist(store, params.id)
  THEN [store |-> store, status |-> Some(404), body |-> NoData, did |-> <<"exist">>, log |-> <<>>]
  ELSE IF fail = 2 \/ StoreRead(store, params.id).err # Null
  THEN Answering500(store, <<"exist", "read">>, <<>>)
  ELSE Sending(store, [item |-> StoreRead(store, params.id).item[1]], <<"exist", "read">>, <<>>)

\* WebapiMethods.prototype.write
WebWrite(store, params, fail) ==
  IF fail = 1 THEN Answering500(store, <<"write">>, <<>>)
  ELSE Sending(StoreWrite(store, params.id, JsonParse(params.content)), [success |-> TRUE],
               <<"write">>, <<>>)

\* WebapiMethods.prototype.erase
WebErase(store, params, fail) ==
  IF fail = 1 \/ StoreErase(store, params.id).err # Null
  THEN Answering500(store, <<"erase">>, <<>>)
  ELSE Sending(StoreErase(store, params.id).store, [success |-> TRUE], <<"erase">>, <<>>)

\* WebapiMethods.prototype.exist
WebExist(store, params, fail) ==
  IF fail = 1 THEN Answering500(store, <<"exist">>, <<>>)
  ELSE Sending(store, [exist |-> StoreExist(store, params.id)], <<"exist">>, <<>>)

\* the cursor of WebapiMethods.prototype.find with offset() called before limit()
WebFindChainOffsetFirst(params) ==
  LET c0 == Cursor(params.condition, params.projection)
      c1 == IF JsTruthy(params.offset) THEN Append(c0, Offset(ToNumber(params.offset))) ELSE c0
      c2 == IF JsTruthy(params.limit) THEN Append(c1, Limit(ToNumber(params.limit))) ELSE c1
  IN  IF JsTruthy(params.sort) THEN Append(c2, Sort(params.sort)) ELSE c2

\* the cursor of WebapiMethods.prototype.find: collection.find(), then limit(),
\* offset() and sort() for the parameters that are set
WebFindChain(params) ==
  LET c0 == Cursor(params.condition, params.projection)
      c1 == IF JsTruthy(params.limit) THEN Append(c0, Limit(ToNumber(params.limit))) ELSE c0
      c2 == IF JsTruthy(params.offset) THEN Append(c1, Offset(ToNumber(params.offset))) ELSE c1
  IN  IF JsTruthy(params.sort) THEN Append(c2, Sort(params.sort)) ELSE c2

\* the callback WebapiMethods.prototype.find gives toArray
WebFindCallback(store, r) ==
  IF r.err # Null THEN Answering500(store, <<"find">>, r.log)
  ELSE Sending(store, [data |-> r.c.heap[r.list[1]]], <<"find">>, r.log)

\* WebapiMethods.prototype.find
WebFind(store, params, fail) ==
  WebFindCallback(store,
    CursorToArray([chain |-> WebFindChain(params), _toArray |-> None, _index |-> None,
                   heap |-> <<>>],
                  [db |-> store, failAt |-> fail, undef |-> FALSE]))

\* the callback WebapiMethods.prototype.count gives collection.count
WebCountCallback(store, r) ==
  IF r.err # Null THEN Answering500(store, <<"count">>, r.log)
  ELSE Sending(store, [count |-> r.count[1]], <<"count">>, r.log)

\* WebapiMethods.prototype.count
WebCount(store, params, fail) ==
  WebCountCallback(store,
    CollectionCount(params.condition, [db |-> store, failAt |-> fail, undef |-> FALSE]))

\* the callback WebapiMethods.prototype.index gives collection.index
WebIndexCallback(store, r) ==
  IF r.err # Null THEN Answering500(store, <<"index">>, r.log)
  ELSE Sending(store, [index |-> r.list[1]], <<"index">>, r.log)

\* WebapiMethods.prototype.index
WebIndex(store, params, fail) ==
  WebIndexCallback(store, BackendIndex([db |-> store, failAt |-> fail, undef |-> FALSE], <<>>))

\* methods[params.method](collection, params, responder)
WebMethod(store, params, fail) ==
  CASE params.method = "read" -> WebRead(store, params, fail)
    [] params.method = "write" -> WebWrite(store, params, fail)
    [] params.method = "erase" -> WebErase(store, params, fail)
    [] params.method = "exist" -> WebExist(store, params, fail)
    [] params.method = "find" -> WebFind(store, params, fail)
    [] params.method = "count" -> WebCount(store, params, fail)
    [] params.method = "index" -> WebIndex(store, params, fail)
    [] params.method \in Inherited ->
         [store |-> store, status |-> None, body |-> NoData, did |-> <<>>, log |-> <<>>]

\* the function webapi() returns, after the body parser: getParams and dispatch
Webapi(store, req, fail) ==
  IF GetParams(req).method = "" \/ ~Resolves(GetParams(req).method)
  THEN [store |-> store, status |-> Some(400), body |-> NoData, did |-> <<>>, log |-> <<>>]
  ELSE WebMethod(store, GetParams(req), fail)

Verbs == {"get", "head", "put", "delete", "post", "options"}

NoQuery ==
  [condition |-> Absent, projection |-> Absent, limit |-> Absent, offset |-> Absent,
   sort |-> Absent]

\* requests for one key: every verb, naming no method, an operation, a name
\* that methods inherits, or a name it does not have
KeyRequests ==
  { [verb |-> verb, method |-> method, id |-> id, content |-> JsonStringify(item),
     query |-> NoQuery] :
      verb \in Verbs,
      method \in {""} \cup ApiMethods \cup Inherited \cup {"bogus"},
      id \in {1, MaxIds}, item \in {[string |-> "FOO", decimal |-> 123]} }

\* find requests: the parameters as a JSON body or as a form
FindRequests ==
  { [verb |-> "post", method |-> "find", id |-> 0, content |-> <<>>,
     query |-> [condition |-> condition, projection |-> Absent, limit |-> limit,
                offset |-> offset, sort |-> sort]] :
      condition \in {Absent, CondObj([string |-> "FOO"])},
      limit \in {Absent} \cup {Num(n) : n \in Counts} \cup {Str(n) : n \in Counts},
      offset \in {Absent} \cup {Num(n) : n \in Counts},
      sort \in {Absent, SortObj(<< <<"decimal", -1>> >>)} }

\* the parameters as getParams finds them in the body or in the query string
Params(req) ==
  [verb |-> req.verb, method |-> req.method, id |-> req.id, content |-> req.content,
   condition |-> req.query.condition, projection |-> req.query.projection,
   limit |-> req.query.limit, offset |-> req.query.offset, sort |-> req.query.sort]

\* a request is served
WebapiRequest(req, fail) ==
  /\ \E r \in {Webapi(db, Params(req), fail)} :
       /\ db' = r.store
       /\ out' = [op |-> "webapi", arg |-> Some(Params(req)), err |-> Null, item |-> None,
                  list |-> None, count |-> None, log |-> r.log, calls |-> <<>>, pulls |-> 0,
                  exist |-> None, pre |-> Pre, status |-> r.status, body |-> r.body,
                  did |-> r.did]
  /\ UNCHANGED <<query, chain, _toArray, _index, heap, held>>

\* requests for keys; a method makes at most two collection calls, and either
\* may fail
NextWeb ==
  /\ \E req \in KeyRequests, fail \in 0..2 : WebapiRequest(req, fail)
  /\ Forget
  /\ Lone
  /\ Idle
  /\ AtOnce

SpecWeb == InitFew /\ [][NextWeb]_vars

\* find requests; the listing may fail
NextWebFind ==
  /\ \E req \in FindRequests, fail \in 0..1 : WebapiRequest(req, fail)
  /\ Forget
  /\ Lone
  /\ Idle
  /\ AtOnce

SpecWebFind == InitList /\ [][NextWebFind]_vars


\* the items of the store that satisfy the condition, in key order
Matches(condition) == SelectSeq(AllItems, LAMBDA item : Matching(condition, item))

\* the first L of the matching items when there is a limit, minus the first O
\* of them, sorted last
LimitOffsetSort(params, limited) ==
  LET first == IF limited THEN FirstOf(Matches(params.condition), ToNumber(params.limit))
               ELSE Matches(params.condition)
      rest == IF Truthy(params.offset) THEN Drop(first, ToNumber(params.offset)) ELSE first
  IN  IF Truthy(params.sort) THEN ArraySort(rest, SortParser(params.sort)) ELSE rest

\* the last operation was a find request that was answered with data
FoundData ==
  /\ out.op = "webapi"
  /\ out.did = <<"find">>
  /\ out.status = Some(200)

\* C37 as amended: the web API's find wraps the cursor in the fixed order
\* limit, offset, sort, leaving out a parameter that is absent or falsy: its
\* data is the first L matching items in key order, minus the first O of them,
\* sorted last, which is find(condition).limit(L).offset(O).sort(S).toArray(),
\* except that a limit given as the number 0 limits nothing.
C37_WebFindLimitOffsetSort ==
  FoundData =>
    /\ out.body.data = LimitOffsetSort(out.arg[1], JsTruthy(out.arg[1].limit))
    /\ (JsTruthy(out.arg[1].limit) /\ Truthy(out.arg[1].offset) /\ Truthy(out.arg[1].sort)) =>
         Some(out.body.data) =
           Delivered(Cursor(out.arg[1].condition, out.arg[1].projection)
                       \o <<Limit(ToNumber(out.arg[1].limit)),
                            Offset(ToNumber(out.arg[1].offset)), Sort(out.arg[1].sort)>>).list

\* limit 2, offset 1 and a descending sort over three keys: the second item alone
C37_Witness ==
  /\ FoundData
  /\ Len(db) = 3
  /\ out.arg[1].condition = Absent
  /\ out.arg[1].limit = Num(2)
  /\ out.arg[1].offset = Num(1)
  /\ out.arg[1].sort = SortObj(<< <<"decimal", -1>> >>)
  /\ out.body.data = <<AllItems[2]>>

\* C37 as claimed: whatever the request, with a limit L the data is that of
\* find(condition).limit(L).offset(O).sort(S).toArray()
C37_WebFindWhateverTheRequest ==
  FoundData => out.body.data = LimitOffsetSort(out.arg[1], Truthy(out.arg[1].limit))


\* the verbs getParams has a default operation for
DefaultVerbs == {"get", "head", "put", "delete"}

\* the last request named none of the API's operations, with a verb that has no
\* default operation
Unroutable ==
  /\ out.op = "webapi"
  /\ out.arg[1].method \notin ApiMethods
  /\ out.arg[1].verb \notin DefaultVerbs

\* C38: a request that names no operation of the API (no method, or a name that
\* is none of them) with a verb other than GET, HEAD, PUT and DELETE performs no
\* collection operation and is answered with status 400.
C38_UnknownMethodIs400 ==
  Unroutable =>
    /\ out.did = <<>>
    /\ out.status = Some(400)


(***************************************************************************)
(* A middleware pipe is set up with use() and run once.                    *)
(***************************************************************************)
JobKinds == {"sync", "async", "stop"}

\* mw.use(job): the job after those used before
MwUse(kind) ==
  /\ ~mw.began
  /\ Len(mw.used) < MaxJobs
  /\ \E job \in {Job(Len(mw.used) + 1, kind)} :
       mw' = [mw EXCEPT !.run = MwJoin(@, job), !.used = Append(@, job)]

\* mw.run(req, res, next)
MwRun ==
  /\ ~mw.began
  /\ \E r \in {MwCall(mw.run, Outer, <<>>)} :
       mw' = [mw EXCEPT !.trace = r.trace, !.parked = r.parked, !.began = TRUE]

\* the job that kept its next calls it
JobCallsNext ==
  /\ mw.parked # None
  /\ \E r \in {MwNext(mw.parked[1].next, Append(mw.trace, <<"next", mw.parked[1].id>>))} :
       mw' = [mw EXCEPT !.trace = r.trace, !.parked = r.parked]

NextPipe ==
  /\ \/ \E kind \in JobKinds : MwUse(kind)
     \/ MwRun
     \/ JobCallsNext
  /\ UNCHANGED <<db, chain, query, _toArray, _index, heap, held, out>>
  /\ Forget
  /\ Lone
  /\ AtOnce

SpecPipe == InitFew /\ [][NextPipe]_vars

\* the n-th event of the trace is the start of job id
StartsAt(n, id) == mw.trace[n] = <<"start", id>>

\* job id called its next before the n-th event
NextBefore(n, id) == \E m \in 1..(n - 1) : mw.trace[m] = <<"next", id>>

\* the jobs started before the n-th event
StartedBefore(n) == Cardinality({m \in 1..(n - 1) : mw.trace[m][1] = "start"})

\* C39: the jobs start in the order they were registered, each once, a job
\* after the first only once the job before it has called next(); after a job
\* that does not call next() nothing runs; and the outer next is called last,
\* once the last job has called next().
C39_PipeRunsInOrder ==
  \A n \in 1..Len(mw.trace) :
    /\ \A id \in 1..Len(mw.used) : StartsAt(n, id) =>
         /\ id = StartedBefore(n) + 1
         /\ id > 1 => NextBefore(n, id - 1)
         /\ mw.used[id].kind = "stop" => n = Len(mw.trace)
    /\ mw.trace[n][1] = "next" =>
         /\ mw.used[mw.trace[n][2]].kind # "stop"
         /\ \E m \in 1..(n - 1) : StartsAt(m, mw.trace[n][2])
    /\ mw.trace[n] = <<"outer">> =>
         /\ n = Len(mw.trace)
         /\ StartedBefore(n) = Len(mw.used)
         /\ mw.used # <<>> => NextBefore(n, Len(mw.used))

\* three jobs, the second calling next() after it returned: all ran in order
\* and the outer next was called
C39_Witness ==
  /\ Len(mw.used) = 3
  /\ mw.used[2].kind = "async"
  /\ mw.used[3].kind = "sync"
  /\ mw.trace = << <<"start", 1>>, <<"next", 1>>, <<"start", 2>>, <<"next", 2>>,
                   <<"start", 3>>, <<"next", 3>>, <<"outer">> >>

====
